---- MODULE Spec2Model ----
(***************************************************************************)
(* ElderNest AI python-ml service: the emergency rule engine               *)
(* (app/services/emergency_detector.py), the rule-based risk scorer        *)
(* (app/services/multi_modal_risk_predictor.py) and the alert dispatcher   *)
(* with its rate limiter (app/services/alert_service.py).                  *)
(*                                                                         *)
(* Conventions.  A Python value that may be None is a sequence: <<>> is    *)
(* None (or an absent dict key) and <<v>> is the value v.  A dict is a     *)
(* record of such optional fields.  Floats are exact fixed-point integers: *)
(* pain_score in tenths, the risk features in hundredths, the risk score   *)
(* in thousandths.  Times are seconds.                                     *)
(***************************************************************************)
EXTENDS Integers, Sequences, FiniteSets, TLC

VARIABLES
    \* ---- emergency_detector.detect_emergency: one call ----
    em_pc,          \* "ready" (arguments chosen) or "done" (call returned)
    vision_data,    \* the vision_data argument (None or dict)
    activity_data,  \* the activity_data argument
    health_data,    \* the health_data argument
    em_result,      \* None, or the dict detect_emergency returned
    \* ---- multi_modal_risk_predictor._predict_with_rules: one call ----
    rk_pc,          \* "ready" or "done"
    features,       \* the feature dict
    rk_result,      \* None, or the dict _predict_with_rules returned
    \* ---- multi_modal_risk_predictor.MultiModalRiskPredictor.predict_risk ----
    joblib_available, \* JOBLIB_AVAILABLE
    paths_to_try,     \* what each path of _load_model's paths_to_try holds
    model,            \* self.model
    model_loaded,     \* self.model_loaded
    summaries,        \* the five modality arguments of predict_risk
    assessment,       \* None, or the dict predict_risk returned
    \* ---- multi_modal_risk_predictor._generate_recommendations: one call ----
    rc_level,         \* the risk_level argument
    rc_factors,       \* the factors argument
    rc_result,        \* None, or the list returned
    \* ---- alert_service.AlertService ----
    now,                  \* datetime.now(), seconds
    ticks,                \* number of clock advances so far
    firebase_initialized, \* self.firebase_initialized
    twilio_initialized,   \* self.twilio_initialized
    alert_history,        \* self.alert_history: key string -> list of timestamps
    call,                 \* per caller: the running send_emergency_alert call
    last_sent             \* per key string: record time of its latest sent dispatch

em_vars == <<em_pc, vision_data, activity_data, health_data, em_result>>
rk_vars == <<rk_pc, features, rk_result>>
pr_vars == <<joblib_available, paths_to_try, model, model_loaded, summaries, assessment>>
rc_vars == <<rc_level, rc_factors, rc_result>>
al_vars == <<now, ticks, firebase_initialized, twilio_initialized, alert_history, call, last_sent>>
vars == <<em_vars, rk_vars, pr_vars, rc_vars, al_vars>>

None == <<>>
Some(x) == <<x>>

\* dict.get(k, default)
Get(d, k, default) == IF d[k] = None THEN default ELSE d[k][1]

\* bool(d.get(k)) for a flag field: an absent key gives None, which is falsy
Truthy(d, k) == d[k] # None /\ d[k][1] = TRUE

Min(a, b) == IF a < b THEN a ELSE b
Max(a, b) == IF a > b THEN a ELSE b

(***************************************************************************)
(*                          EMERGENCY DETECTOR                             *)
(***************************************************************************)

\* EmergencyDetector.THRESHOLDS (pain_score_threshold 0.7 in tenths)
THRESHOLDS ==
    [fall_no_movement_minutes |-> 5,
     critical_distress_duration_min |-> 10,
     days_without_eating |-> 2,
     inactivity_hours |-> 18,
     pain_score_threshold |-> 7,
     combined_risk_factors |-> 3]

\* severity_order of detect_emergency, with .get(severity, 0)
severity_order(sev) ==
    CASE sev = "critical" -> 4
      [] sev = "high" -> 3
      [] sev = "medium" -> 2
      [] sev = "low" -> 1
      [] OTHER -> 0

\* The dicts detect_emergency reads.  A vision summary carries pain_score
\* beside pain_detected; the checks read pain_score from health_data only.  wrong_type is the set of present keys
\* whose value is not a number although the code compares it with one (a JSON
\* null, a string): the comparison then raises TypeError.
EmptyVision ==
    [fall_detected |-> None, fall_timestamp |-> None, distress_level |-> None,
     pain_detected |-> None, pain_score |-> None, pain_expression_count |-> None,
     unusual_posture |-> None,
     wrong_type |-> {}]

EmptyActivity ==
    [days_without_eating |-> None, max_inactivity_hours |-> None,
     prolonged_inactivity |-> None, concerning |-> None,
     wrong_type |-> {}]

EmptyHealth ==
    [pain_score |-> None, health_complaints |-> None,
     emergency_button_presses |-> None, medicine_missed |-> None,
     wrong_type |-> {}]

\* `arg or {}`: None and the empty dict both become the empty dict
OrEmpty(arg, empty) == IF arg = None THEN empty ELSE arg[1]

\* mutant of check_fall_emergency: the elapsed time compared with > instead of >=
check_fall_emergency_strict(vd) ==
    IF ~Truthy(vd, "fall_detected") THEN None
    ELSE IF vd.fall_timestamp # None /\ vd.fall_timestamp[1].parses
             /\ vd.fall_timestamp[1].elapsed > THRESHOLDS.fall_no_movement_minutes * 60
         THEN Some([type |-> "fall_no_movement", severity |-> "critical",
                    message |-> <<"URGENT: Fall detected {} minutes ago with no movement detected!",
                                  vd.fall_timestamp[1].elapsed \div 60>>,
                    action |-> "Call immediately or contact emergency services (911)."])
         ELSE Some([type |-> "fall_detected", severity |-> "critical",
                    message |-> <<"FALL DETECTED! Elder appears to have fallen.">>,
                    action |-> "Contact immediately to verify safety."])

\* _check_fall_emergency.  A fall_timestamp is [parses, elapsed]: whether
\* datetime.fromisoformat accepts it (and the subtraction from now() does not
\* raise), and the seconds between it and now().
check_fall_emergency(vd) ==
    IF ~Truthy(vd, "fall_detected") THEN None
    ELSE LET fall_timestamp == vd.fall_timestamp
             immediate == Some([type |-> "fall_detected", severity |-> "critical",
                                message |-> <<"FALL DETECTED! Elder appears to have fallen.">>,
                                action |-> "Contact immediately to verify safety."])
         IN IF fall_timestamp # None /\ fall_timestamp[1].parses
                 /\ fall_timestamp[1].elapsed >= THRESHOLDS.fall_no_movement_minutes * 60
            THEN Some([type |-> "fall_no_movement", severity |-> "critical",
                       message |-> <<"URGENT: Fall detected {} minutes ago with no movement detected!",
                                     fall_timestamp[1].elapsed \div 60>>,
                       action |-> "Call immediately or contact emergency services (911)."])
            ELSE immediate

\* mutant of check_distress_emergency: the default of an absent distress_level
\* is 'high' instead of 'low'
check_distress_emergency_default_high(vd) ==
    LET distress_level == Get(vd, "distress_level", "high")
    IN IF distress_level = "critical"
       THEN Some([type |-> "extreme_distress", severity |-> "critical",
                  message |-> <<"URGENT: Extreme emotional distress detected!">>,
                  action |-> "Contact immediately to check on wellbeing and provide support."])
       ELSE IF distress_level = "high"
       THEN Some([type |-> "high_distress", severity |-> "high",
                  message |-> <<"High emotional distress detected in facial expressions.">>,
                  action |-> "Schedule immediate check-in call or visit."])
       ELSE None

\* _check_distress_emergency
check_distress_emergency(vd) ==
    LET distress_level == Get(vd, "distress_level", "low")
    IN IF distress_level = "critical"
       THEN Some([type |-> "extreme_distress", severity |-> "critical",
                  message |-> <<"URGENT: Extreme emotional distress detected!">>,
                  action |-> "Contact immediately to check on wellbeing and provide support."])
       ELSE IF distress_level = "high"
       THEN Some([type |-> "high_distress", severity |-> "high",
                  message |-> <<"High emotional distress detected in facial expressions.">>,
                  action |-> "Schedule immediate check-in call or visit."])
       ELSE None

\* _check_pain_emergency: pain_score and health_complaints are read from
\* health_data, pain_detected and pain_expression_count from vision_data
check_pain_emergency(vd, hd) ==
    LET pain_detected == Get(vd, "pain_detected", FALSE)
        pain_score == Get(hd, "pain_score", 0)
        pain_expressions == Get(vd, "pain_expression_count", 0)
        health_complaints == Get(hd, "health_complaints", 0)
    IN IF pain_detected /\ pain_score > THRESHOLDS.pain_score_threshold
       THEN Some([type |-> "severe_pain", severity |-> "high",
                  message |-> <<"Severe pain detected (score: {}). Visible pain expressions count: {}",
                                pain_score, pain_expressions>>,
                  action |-> "Contact to assess pain level."])
       ELSE IF pain_expressions > 3 /\ health_complaints > 2
       THEN Some([type |-> "pain_indicators", severity |-> "medium",
                  message |-> <<"Multiple pain indicators: {} pain expressions, {} health complaints.",
                                pain_expressions, health_complaints>>,
                  action |-> "Monitor closely and check in about health status."])
       ELSE None

\* mutant of check_eating_emergency: the threshold compared with > instead of >=
check_eating_emergency_strict(ad) ==
    LET days_without_eating == Get(ad, "days_without_eating", 0)
    IN IF days_without_eating > THRESHOLDS.days_without_eating
       THEN Some([type |-> "no_eating", severity |-> "critical",
                  message |-> <<"URGENT: No meals detected for {} days!", days_without_eating>>,
                  action |-> "Contact IMMEDIATELY to ensure food access, appetite, and ability to eat."])
       ELSE IF days_without_eating = 1
       THEN Some([type |-> "missed_meals", severity |-> "medium",
                  message |-> <<"No meals detected for the past day.">>,
                  action |-> "Check in to verify eating status and food availability."])
       ELSE None

\* _check_eating_emergency
check_eating_emergency(ad) ==
    LET days_without_eating == Get(ad, "days_without_eating", 0)
    IN IF days_without_eating >= THRESHOLDS.days_without_eating
       THEN Some([type |-> "no_eating", severity |-> "critical",
                  message |-> <<"URGENT: No meals detected for {} days!", days_without_eating>>,
                  action |-> "Contact IMMEDIATELY to ensure food access, appetite, and ability to eat."])
       ELSE IF days_without_eating = 1
       THEN Some([type |-> "missed_meals", severity |-> "medium",
                  message |-> <<"No meals detected for the past day.">>,
                  action |-> "Check in to verify eating status and food availability."])
       ELSE None

\* _check_inactivity_emergency
check_inactivity_emergency(ad) ==
    LET max_inactivity == Get(ad, "max_inactivity_hours", 0)
    IN IF max_inactivity >= THRESHOLDS.inactivity_hours
       THEN Some([type |-> "prolonged_inactivity", severity |-> "high",
                  message |-> <<"No movement detected for {} hours.", max_inactivity>>,
                  action |-> "Contact immediately to verify safety."])
       ELSE IF max_inactivity >= 12
       THEN Some([type |-> "extended_inactivity", severity |-> "medium",
                  message |-> <<"Extended inactivity: no movement for {} hours.", max_inactivity>>,
                  action |-> "Schedule check-in to verify wellbeing."])
       ELSE None

\* mutant of check_emergency_button: a single press is not enough
check_emergency_button_repeated(hd) ==
    LET emergency_presses == Get(hd, "emergency_button_presses", 0)
    IN IF emergency_presses > 1
       THEN Some([type |-> "emergency_button", severity |-> "critical",
                  message |-> <<"EMERGENCY BUTTON PRESSED ({} times)!", emergency_presses>>,
                  action |-> "Contact IMMEDIATELY or call emergency services."])
       ELSE None

\* _check_emergency_button
check_emergency_button(hd) ==
    LET emergency_presses == Get(hd, "emergency_button_presses", 0)
    IN IF emergency_presses > 0
       THEN Some([type |-> "emergency_button", severity |-> "critical",
                  message |-> <<"EMERGENCY BUTTON PRESSED ({} times)!", emergency_presses>>,
                  action |-> "Contact IMMEDIATELY or call emergency services."])
       ELSE None

\* the risk_factors list _check_combined_risks builds, in its order
combined_risk_factors(vd, ad, hd) ==
    (IF vd.distress_level # None /\ vd.distress_level[1] \in {"high", "critical"}
        THEN <<"emotional distress">> ELSE <<>>)
    \o (IF Truthy(vd, "pain_detected") THEN <<"pain expressions">> ELSE <<>>)
    \o (IF Truthy(vd, "unusual_posture") THEN <<"unusual posture">> ELSE <<>>)
    \o (IF Truthy(ad, "prolonged_inactivity") THEN <<"prolonged inactivity">> ELSE <<>>)
    \o (IF Truthy(ad, "concerning") THEN <<"concerning activity patterns">> ELSE <<>>)
    \o (IF Get(ad, "days_without_eating", 0) > 0 THEN <<"missed meals">> ELSE <<>>)
    \o (IF Get(hd, "health_complaints", 0) > 3 THEN <<"multiple health complaints">> ELSE <<>>)
    \o (IF Get(hd, "medicine_missed", 0) > 3 THEN <<"missed medications">> ELSE <<>>)

\* _check_combined_risks with the threshold compared with > instead of >=
check_combined_risks_strict(vd, ad, hd) ==
    LET risk_factors == combined_risk_factors(vd, ad, hd)
    IN IF Len(risk_factors) > THRESHOLDS.combined_risk_factors
       THEN Some([type |-> "multiple_risk_factors", severity |-> "high",
                  message |-> <<"Multiple concerning signals detected: {}{}",
                                SubSeq(risk_factors, 1, Min(5, Len(risk_factors))),
                                IF Len(risk_factors) > 5 THEN "..." ELSE "">>,
                  action |-> "Schedule urgent check-in or visit.",
                  risk_factors |-> risk_factors])
       ELSE None

\* _check_combined_risks; the message is the joined first five names and
\* whether the "..." marker follows
check_combined_risks(vd, ad, hd) ==
    LET risk_factors == combined_risk_factors(vd, ad, hd)
    IN IF Len(risk_factors) >= THRESHOLDS.combined_risk_factors
       THEN Some([type |-> "multiple_risk_factors", severity |-> "high",
                  message |-> <<"Multiple concerning signals detected: {}{}",
                                SubSeq(risk_factors, 1, Min(5, Len(risk_factors))),
                                IF Len(risk_factors) > 5 THEN "..." ELSE "">>,
                  action |-> "Schedule urgent check-in or visit.",
                  risk_factors |-> risk_factors])
       ELSE None

\* the candidates of one severity rank, in list order
OfRank(emergencies, r) ==
    SelectSeq(emergencies, LAMBDA e : severity_order(e.severity) = r)

\* mutant of sort_by_severity: an ascending sort that is then reversed, which
\* reverses the list order of equal ranks
sort_by_severity_reversed(emergencies) ==
    LET Rev(q) == [i \in 1..Len(q) |-> q[Len(q) + 1 - i]]
    IN Rev(OfRank(emergencies, 4)) \o Rev(OfRank(emergencies, 3)) \o Rev(OfRank(emergencies, 2))
        \o Rev(OfRank(emergencies, 1)) \o Rev(OfRank(emergencies, 0))

\* emergencies.sort(key=severity rank, reverse=True): list.sort is stable,
\* also with reverse=True, so equal ranks keep their list order
sort_by_severity(emergencies) ==
    OfRank(emergencies, 4) \o OfRank(emergencies, 3) \o OfRank(emergencies, 2)
        \o OfRank(emergencies, 1) \o OfRank(emergencies, 0)

\* mutant of collect_emergencies: the inactivity candidate is never appended
collect_emergencies_no_inactivity(vd, ad, hd) ==
    check_fall_emergency(vd) \o check_distress_emergency(vd)
        \o check_pain_emergency(vd, hd) \o check_eating_emergency(ad)
        \o check_emergency_button(hd)
        \o check_combined_risks(vd, ad, hd)

\* the emergencies list of detect_emergency before it is sorted: each check's
\* candidate, when it returned one, in the order the checks run
collect_emergencies(vd, ad, hd) ==
    check_fall_emergency(vd) \o check_distress_emergency(vd)
        \o check_pain_emergency(vd, hd) \o check_eating_emergency(ad)
        \o check_inactivity_emergency(ad) \o check_emergency_button(hd)
        \o check_combined_risks(vd, ad, hd)

\* Whether a check raises TypeError: a comparison with a number reaches a
\* wrong-typed value.  `and` short-circuits, and a check that has returned
\* evaluates nothing further.
pain_check_raises(vd, hd) ==
    LET pain_detected == Get(vd, "pain_detected", FALSE)
        severe == pain_detected /\ Get(hd, "pain_score", 0) > THRESHOLDS.pain_score_threshold
    IN \/ pain_detected /\ "pain_score" \in hd.wrong_type
       \/ /\ ~(pain_detected /\ "pain_score" \in hd.wrong_type)
          /\ ~severe
          /\ \/ "pain_expression_count" \in vd.wrong_type
             \/ /\ Get(vd, "pain_expression_count", 0) > 3
                /\ "health_complaints" \in hd.wrong_type

check_raises(vd, ad, hd) ==
    \/ pain_check_raises(vd, hd)
    \/ "days_without_eating" \in ad.wrong_type
    \/ "max_inactivity_hours" \in ad.wrong_type
    \/ "emergency_button_presses" \in hd.wrong_type
    \/ "health_complaints" \in hd.wrong_type
    \/ "medicine_missed" \in hd.wrong_type

\* detect_emergency (recent_events is passed on to _check_fall_emergency, which
\* never reads it; the 'timestamp' entry of the result is left out).  It has no
\* try block: a TypeError of a check leaves it as an exception.
detect_emergency(v_arg, a_arg, h_arg) ==
    LET vd == OrEmpty(v_arg, EmptyVision)
        ad == OrEmpty(a_arg, EmptyActivity)
        hd == OrEmpty(h_arg, EmptyHealth)
        emergencies == collect_emergencies(vd, ad, hd)
    IN IF check_raises(vd, ad, hd)
       THEN [raised |-> "TypeError"]
       ELSE IF emergencies = <<>>
       THEN [emergency |-> FALSE, emergency_type |-> None, severity |-> "none",
             alert_message |-> None, recommended_action |-> None,
             all_concerns |-> <<>>]
       ELSE LET sorted == sort_by_severity(emergencies)
                top_emergency == sorted[1]
            IN [emergency |-> TRUE,
                emergency_type |-> Some(top_emergency.type),
                severity |-> top_emergency.severity,
                alert_message |-> Some(top_emergency.message),
                recommended_action |-> Some(top_emergency.action),
                all_concerns |-> sorted,
                total_emergencies |-> Len(sorted)]

\* ---- one call of detect_emergency on arguments a caller assembles ----

VisionKeys ==
    {"fall_detected", "fall_timestamp", "distress_level", "pain_detected", "pain_score",
     "pain_expression_count", "unusual_posture"}
ActivityKeys ==
    {"days_without_eating", "max_inactivity_hours", "prolonged_inactivity", "concerning"}
HealthKeys ==
    {"pain_score", "health_complaints", "emergency_button_presses", "medicine_missed"}

\* the keys whose value the checks compare with a number
NumericKeys ==
    {"pain_expression_count", "days_without_eating", "max_inactivity_hours",
     "pain_score", "health_complaints", "emergency_button_presses", "medicine_missed"}

\* the values a caller gives a key
KeyValues(k) ==
    CASE k \in {"fall_detected"} -> {TRUE, FALSE}
      [] k \in {"pain_detected", "unusual_posture", "prolonged_inactivity", "concerning"} -> {TRUE}
      [] k = "fall_timestamp" ->
            {[parses |-> TRUE, elapsed |-> 299], [parses |-> TRUE, elapsed |-> 300],
             [parses |-> FALSE, elapsed |-> 0]}
      [] k = "distress_level" -> {"low", "high", "critical"}
      [] k = "pain_expression_count" -> {3, 4}
      [] k = "days_without_eating" -> {0, 1, 2, 3}
      [] k = "max_inactivity_hours" -> {12, 18}
      [] k = "pain_score" -> {7, 8}
      [] k = "health_complaints" -> {3, 4}
      [] k = "emergency_button_presses" -> {0, 1}
      [] k = "medicine_missed" -> {4}

\* at most this many keys are present over the three dicts
MaxPresent == 4

PresentKeys(arg, keys) == IF arg = None THEN {} ELSE {k \in keys : arg[1][k] # None}

PresentCount ==
    Cardinality(PresentKeys(vision_data, VisionKeys))
        + Cardinality(PresentKeys(activity_data, ActivityKeys))
        + Cardinality(PresentKeys(health_data, HealthKeys))

CanSet(arg, k) == em_pc = "ready" /\ arg # None /\ arg[1][k] = None /\ PresentCount < MaxPresent

WithKey(arg, k, v) == Some([arg[1] EXCEPT ![k] = Some(v)])

WithWrongKey(arg, k) ==
    Some([arg[1] EXCEPT ![k] = Some(0), !.wrong_type = @ \cup {k}])

InitEmergency ==
    /\ em_pc = "ready"
    /\ vision_data = None
    /\ activity_data = None
    /\ health_data = None
    /\ em_result = None

\* the caller passes a dict instead of None
ProvideVision ==
    /\ em_pc = "ready" /\ vision_data = None
    /\ vision_data' = Some(EmptyVision)
    /\ UNCHANGED <<em_pc, activity_data, health_data, em_result>>
    /\ UNCHANGED <<rk_vars, pr_vars, rc_vars, al_vars>>

ProvideActivity ==
    /\ em_pc = "ready" /\ activity_data = None
    /\ activity_data' = Some(EmptyActivity)
    /\ UNCHANGED <<em_pc, vision_data, health_data, em_result>>
    /\ UNCHANGED <<rk_vars, pr_vars, rc_vars, al_vars>>

ProvideHealth ==
    /\ em_pc = "ready" /\ health_data = None
    /\ health_data' = Some(EmptyHealth)
    /\ UNCHANGED <<em_pc, vision_data, activity_data, em_result>>
    /\ UNCHANGED <<rk_vars, pr_vars, rc_vars, al_vars>>

\* the caller puts a key into a dict
SetVision ==
    /\ \E k \in VisionKeys :
          /\ CanSet(vision_data, k)
          /\ \/ \E v \in KeyValues(k) : vision_data' = WithKey(vision_data, k, v)
             \/ k \in NumericKeys /\ vision_data' = WithWrongKey(vision_data, k)
    /\ UNCHANGED <<em_pc, activity_data, health_data, em_result>>
    /\ UNCHANGED <<rk_vars, pr_vars, rc_vars, al_vars>>

SetActivity ==
    /\ \E k \in ActivityKeys :
          /\ CanSet(activity_data, k)
          /\ \/ \E v \in KeyValues(k) : activity_data' = WithKey(activity_data, k, v)
             \/ k \in NumericKeys /\ activity_data' = WithWrongKey(activity_data, k)
    /\ UNCHANGED <<em_pc, vision_data, health_data, em_result>>
    /\ UNCHANGED <<rk_vars, pr_vars, rc_vars, al_vars>>

SetHealth ==
    /\ \E k \in HealthKeys :
          /\ CanSet(health_data, k)
          /\ \/ \E v \in KeyValues(k) : health_data' = WithKey(health_data, k, v)
             \/ k \in NumericKeys /\ health_data' = WithWrongKey(health_data, k)
    /\ UNCHANGED <<em_pc, vision_data, activity_data, em_result>>
    /\ UNCHANGED <<rk_vars, pr_vars, rc_vars, al_vars>>

\* emergency_detector.detect_emergency(vision_data, activity_data, health_data)
DetectEmergency ==
    /\ em_pc = "ready"
    /\ em_result' = Some(detect_emergency(vision_data, activity_data, health_data))
    /\ em_pc' = "done"
    /\ UNCHANGED <<vision_data, activity_data, health_data>>
    /\ UNCHANGED <<rk_vars, pr_vars, rc_vars, al_vars>>

NextEmergency ==
    \/ ProvideVision
    \/ ProvideActivity
    \/ ProvideHealth
    \/ SetVision
    \/ SetActivity
    \/ SetHealth
    \/ DetectEmergency

\* ---- detect_emergency on summaries carrying the combined-risk indicators ----

\* a flag key: absent, false or true
FlagOptions == {None, Some(FALSE), Some(TRUE)}

\* the three summaries with each of the eight indicators absent, not tripped
\* or tripped
CombinedVision ==
    {[EmptyVision EXCEPT !.distress_level = d, !.pain_detected = p, !.unusual_posture = u] :
        d \in {None, Some("low"), Some("high"), Some("critical")}, p \in FlagOptions, u \in FlagOptions}
CombinedActivity ==
    {[EmptyActivity EXCEPT !.prolonged_inactivity = i, !.concerning = c, !.days_without_eating = e] :
        i \in FlagOptions, c \in FlagOptions, e \in {None, Some(0), Some(1)}}
CombinedHealth ==
    {[EmptyHealth EXCEPT !.health_complaints = h, !.medicine_missed = mm] :
        h \in {None, Some(3), Some(4)}, mm \in {None, Some(3), Some(4)}}

InitCombined ==
    /\ em_pc = "ready"
    /\ vision_data \in {Some(v) : v \in CombinedVision}
    /\ activity_data \in {Some(a) : a \in CombinedActivity}
    /\ health_data \in {Some(h) : h \in CombinedHealth}
    /\ em_result = None

NextCombined ==
    \/ DetectEmergency

(***************************************************************************)
(*                 RULE-BASED RISK SCORER (_predict_with_rules)            *)
(***************************************************************************)

\* Fixed point.  Float features (avg_sentiment_7days, avg_facial_emotion_score,
\* eating_irregularity, sleep_quality_score, camera_inactivity_hours) are in
\* hundredths, the weighted score in thousandths, and `normalized` is the
\* rational norm / NormDen.  Probabilities and risk_score, which the code rounds
\* to 3 decimals, are in thousandths.

\* (score + 2) / 12 with score in thousandths is (score + 2000) / 12000
NormDen == 12000

\* round(p / q, 0) for p >= 0.  A float that is mathematically half-way between
\* two neighbours is not stored exactly, so either neighbour can come out: `up`
\* is that outcome.
RoundDiv(p, q, up) ==
    LET f == p \div q
        r == p % q
    IN IF 2 * r < q THEN f
       ELSE IF 2 * r > q THEN f + 1
       ELSE IF up THEN f + 1 ELSE f

\* the weighted sum `score` of _predict_with_rules, in thousandths
rule_score(f) ==
    (IF f.fall_detected_count > 0 THEN 3000 * f.fall_detected_count ELSE 0)
    + (IF f.emergency_button_presses > 0 THEN 4000 * f.emergency_button_presses ELSE 0)
    + (IF f.days_without_eating > 0 THEN 2500 * f.days_without_eating ELSE 0)
    + (IF f.distress_episodes > 0 THEN 1500 * f.distress_episodes ELSE 0)
    + (IF f.camera_inactivity_hours > 1200 THEN 2000 ELSE 0)
    + (IF f.pain_expression_count > 2 THEN 1000 * (f.pain_expression_count - 2) ELSE 0)
    + (0 - f.avg_sentiment_7days) * 15
    + f.sad_mood_count * 300
    + f.lonely_mentions * 200
    + f.health_complaints * 300
    + f.medicine_missed * 400
    + f.inactive_days * 300
    + (0 - f.avg_facial_emotion_score) * 5
    + f.eating_irregularity * 5
    + (100 - f.sleep_quality_score) * 5

\* normalized with the score divided by 3 instead of 12
normalized_of_narrow(f) == Min(NormDen, Max(0, (rule_score(f) + 2000) * 4))

\* normalized = min(1.0, max(0.0, (score + 2) / 12)), as a numerator over NormDen
normalized_of(f) == Min(NormDen, Max(0, rule_score(f) + 2000))

\* _predict_with_rules; tie[x] is the outcome of round() for entry x when the
\* value is half-way
predict_with_rules(f, tie) ==
    LET n == normalized_of(f)
        risk_score == RoundDiv(n * 1000, NormDen, tie["risk_score"])
    IN IF 10 * n < 3 * NormDen
       THEN [risk_level |-> "SAFE", risk_score |-> risk_score,
             probabilities |->
                [safe |-> RoundDiv((NormDen - n) * 1000, NormDen, tie["safe"]),
                 monitor |-> RoundDiv(n * 700, NormDen, tie["monitor"]),
                 high_risk |-> RoundDiv(n * 300, NormDen, tie["high_risk"])]]
       ELSE IF 10 * n < 6 * NormDen
       THEN [risk_level |-> "MONITOR", risk_score |-> risk_score,
             probabilities |->
                [safe |-> RoundDiv((NormDen - n) * 500, NormDen, tie["safe"]),
                 monitor |-> RoundDiv(500 * NormDen + (10 * n - 3 * NormDen) * 50, NormDen, tie["monitor"]),
                 high_risk |-> RoundDiv(n * 300, NormDen, tie["high_risk"])]]
       ELSE [risk_level |-> "HIGH_RISK", risk_score |-> risk_score,
             probabilities |->
                [safe |-> RoundDiv((NormDen - n) * 300, NormDen, tie["safe"]),
                 monitor |-> RoundDiv((NormDen - n) * 500, NormDen, tie["monitor"]),
                 high_risk |-> RoundDiv(n * 1000, NormDen, tie["high_risk"])]]

\* FEATURE_ORDER
FEATURE_ORDER ==
    <<"avg_sentiment_7days", "sad_mood_count", "lonely_mentions", "health_complaints",
      "inactive_days", "medicine_missed", "avg_facial_emotion_score", "fall_detected_count",
      "distress_episodes", "eating_irregularity", "sleep_quality_score", "days_without_eating",
      "emergency_button_presses", "camera_inactivity_hours", "pain_expression_count">>

FeatureNames == {FEATURE_ORDER[i] : i \in 1..Len(FEATURE_ORDER)}

\* the vector _extract_features gives for empty inputs: every default
DefaultFeatures ==
    [k \in FeatureNames |-> IF k = "sleep_quality_score" THEN 100 ELSE 0]

\* values a feature takes besides its default, within the domains of the
\* feature table (sentiment and emotion score in [-1, 1], ratios in [0, 1])
FeatureValues(k) ==
    CASE k = "avg_sentiment_7days" -> {-100, 30, 100}
      [] k = "sad_mood_count" -> {1, 2, 5}
      [] k = "lonely_mentions" -> {1, 4, 5}
      [] k = "health_complaints" -> {1, 3}
      [] k = "inactive_days" -> {1, 4}
      [] k = "medicine_missed" -> {1, 3}
      [] k = "avg_facial_emotion_score" -> {-50, 1, 100}
      [] k = "fall_detected_count" -> {1, 2}
      [] k = "distress_episodes" -> {1}
      [] k = "eating_irregularity" -> {19, 20, 60}
      [] k = "sleep_quality_score" -> {40, 70}
      [] k = "days_without_eating" -> {1, 2}
      [] k = "emergency_button_presses" -> {1, 3}
      [] k = "camera_inactivity_hours" -> {600, 1200, 1300}
      [] k = "pain_expression_count" -> {2, 3}

\* at most this many features differ from their default
MaxChanged == 3

ChangedFeatures == {k \in FeatureNames : features[1][k] # DefaultFeatures[k]}

RoundedEntries == {"risk_score", "safe", "monitor", "high_risk"}

InitRisk ==
    /\ rk_pc = "ready"
    /\ features = Some(DefaultFeatures)
    /\ rk_result = None

\* the caller's data moves one feature off its default
SetFeature ==
    /\ rk_pc = "ready"
    /\ Cardinality(ChangedFeatures) < MaxChanged
    /\ \E k \in FeatureNames \ ChangedFeatures : \E v \in FeatureValues(k) :
          features' = Some([features[1] EXCEPT ![k] = v])
    /\ UNCHANGED <<rk_pc, rk_result>>
    /\ UNCHANGED <<em_vars, pr_vars, rc_vars, al_vars>>

\* result = self._predict_with_rules(features)
PredictWithRules ==
    /\ rk_pc = "ready"
    /\ \E tie \in [RoundedEntries -> BOOLEAN] :
          rk_result' = Some(predict_with_rules(features[1], tie))
    /\ rk_pc' = "done"
    /\ UNCHANGED features
    /\ UNCHANGED <<em_vars, pr_vars, rc_vars, al_vars>>

NextRisk ==
    \/ SetFeature
    \/ PredictWithRules

(***************************************************************************)
(*        RISK FACTORS AND RECOMMENDATIONS (_identify_risk_factors,        *)
(*                      _generate_recommendations)                         *)
(***************************************************************************)

\* Texts are the strings of the source without their leading pictograph (a
\* non-letter mark followed by a space); the space is kept.

\* str.lower() on the letters A-Z
LowerCase ==
    "A" :> "a" @@ "B" :> "b" @@ "C" :> "c" @@ "D" :> "d" @@ "E" :> "e" @@ "F" :> "f" @@ "G"
    :> "g" @@ "H" :> "h" @@ "I" :> "i" @@ "J" :> "j" @@ "K" :> "k" @@ "L" :> "l" @@ "M" :>
    "m" @@ "N" :> "n" @@ "O" :> "o" @@ "P" :> "p" @@ "Q" :> "q" @@ "R" :> "r" @@ "S" :> "s"
    @@ "T" :> "t" @@ "U" :> "u" @@ "V" :> "v" @@ "W" :> "w" @@ "X" :> "x" @@ "Y" :> "y" @@
    "Z" :> "z"

RECURSIVE Lower(_)
Lower(s) ==
    IF Len(s) = 0 THEN ""
    ELSE IF Len(s) = 1 THEN (IF s \in DOMAIN LowerCase THEN LowerCase[s] ELSE s)
    ELSE LET half == Len(s) \div 2
         IN Lower(SubSeq(s, 1, half)) \o Lower(SubSeq(s, half + 1, Len(s)))

\* `sub in s` for strings
Contains(s, sub) ==
    \E i \in 1..(Len(s) - Len(sub) + 1) : SubSeq(s, i, i + Len(sub) - 1) = sub

\* ' '.join(texts)
RECURSIVE Join(_)
Join(texts) ==
    IF texts = <<>> THEN ""
    ELSE IF Len(texts) = 1 THEN texts[1]
    ELSE texts[1] \o " " \o Join(Tail(texts))

\* f'{hours:.1f}' for hours in hundredths (half-way digits go to the even tenth)
Format1f(h) ==
    LET t == h \div 10
        r == h % 10
        tenths == IF r > 5 \/ (r = 5 /\ t % 2 = 1) THEN t + 1 ELSE t
    IN ToString(tenths \div 10) \o "." \o ToString(tenths % 10)

NoConcerns == "No major concerns detected"

\* _identify_risk_factors without the final substitution of the sentinel
tripped_factors(f) ==
    (IF f.avg_sentiment_7days < -30 THEN <<"Persistent negative mood in conversations">> ELSE <<>>)
    \o (IF f.sad_mood_count > 4
        THEN <<"Frequent sad moods (" \o ToString(f.sad_mood_count) \o " times)">> ELSE <<>>)
    \o (IF f.lonely_mentions > 3 THEN <<"Repeated mentions of loneliness">> ELSE <<>>)
    \o (IF f.health_complaints > 2
        THEN <<ToString(f.health_complaints) \o " health complaints reported">> ELSE <<>>)
    \o (IF f.medicine_missed > 2
        THEN <<ToString(f.medicine_missed) \o " missed medications">> ELSE <<>>)
    \o (IF f.fall_detected_count > 0
        THEN <<" " \o ToString(f.fall_detected_count) \o " fall(s) detected">> ELSE <<>>)
    \o (IF f.distress_episodes > 0
        THEN <<" " \o ToString(f.distress_episodes) \o " distress episode(s)">> ELSE <<>>)
    \o (IF f.pain_expression_count > 2 THEN <<"Frequent pain expressions detected">> ELSE <<>>)
    \o (IF f.days_without_eating > 0
        THEN <<" No meals for " \o ToString(f.days_without_eating) \o " day(s)">> ELSE <<>>)
    \o (IF f.camera_inactivity_hours > 1200
        THEN <<"Prolonged inactivity (" \o Format1f(f.camera_inactivity_hours) \o " hours)">>
        ELSE <<>>)
    \o (IF f.sleep_quality_score < 50 THEN <<"Poor sleep quality">> ELSE <<>>)
    \o (IF f.eating_irregularity > 50 THEN <<"Irregular eating patterns">> ELSE <<>>)
    \o (IF f.inactive_days > 3 THEN <<ToString(f.inactive_days) \o " inactive days">> ELSE <<>>)
    \o (IF f.avg_facial_emotion_score < -30
        THEN <<"Consistently negative facial expressions">> ELSE <<>>)
    \o (IF f.emergency_button_presses > 0
        THEN <<" Emergency button pressed " \o ToString(f.emergency_button_presses) \o " time(s)">>
        ELSE <<>>)

\* _identify_risk_factors that returns the list as collected
identify_risk_factors_no_sentinel(f) == tripped_factors(f)

\* _identify_risk_factors
identify_risk_factors(f) ==
    LET factors == tripped_factors(f)
    IN IF factors # <<>> THEN factors ELSE <<NoConcerns>>

\* recs[:n]
Take(recs, n) == SubSeq(recs, 1, Min(n, Len(recs)))

\* the SAFE list
safe_recs ==
    <<" Continue regular monitoring",
      "Maintain current care routine",
      "Encourage social activities and engagement">>

\* the MONITOR branch up to its return: recs before the slice
monitor_recs(factors) ==
    LET factors_lower == Lower(Join(factors))
    IN <<" Increase check-in frequency">>
       \o (IF Contains(factors_lower, "lonely")
           THEN <<" Arrange family visit or video call">> ELSE <<>>)
       \o (IF Contains(factors_lower, "health") \/ Contains(factors_lower, "pain")
           THEN <<" Schedule medical consultation">> ELSE <<>>)
       \o (IF Contains(factors_lower, "eating") \/ Contains(factors_lower, "meal")
           THEN <<" Verify food availability and appetite">> ELSE <<>>)
       \o (IF Contains(factors_lower, "medicine") \/ Contains(factors_lower, "medication")
           THEN <<" Set up medication reminders or assistance">> ELSE <<>>)
       \o (IF Contains(factors_lower, "sleep")
           THEN <<" Assess sleep environment and habits">> ELSE <<>>)
       \o (IF Contains(factors_lower, "inactive")
           THEN <<" Encourage light physical activity">> ELSE <<>>)

\* the HIGH_RISK branch up to its return: recs before the slice
high_risk_recs(factors) ==
    LET factors_str == Lower(Join(factors))
    IN <<" IMMEDIATE ACTION REQUIRED">>
       \o (IF Contains(factors_str, "fall")
           THEN <<" Contact IMMEDIATELY to verify safety after fall">> ELSE <<>>)
       \o (IF Contains(factors_str, "eating") /\ Contains(factors_str, "day")
           THEN <<" URGENT: Check food situation immediately">> ELSE <<>>)
       \o (IF Contains(factors_str, "distress")
           THEN <<" Contact immediately - emotional distress detected">> ELSE <<>>)
       \o (IF Contains(factors_str, "inactivity")
           THEN <<" Verify wellbeing - prolonged inactivity detected">> ELSE <<>>)
       \o (IF Contains(factors_str, "emergency")
           THEN <<" RESPOND TO EMERGENCY BUTTON - contact now">> ELSE <<>>)
       \o <<" Schedule immediate check-in or visit",
            " Evaluate need for increased care level",
            " Monitor closely for next 24-48 hours">>

\* _generate_recommendations that returns the MONITOR and HIGH_RISK lists unsliced
generate_recommendations_unsliced(risk_level, factors) ==
    IF risk_level = "SAFE" THEN safe_recs
    ELSE IF risk_level = "MONITOR" THEN monitor_recs(factors)
    ELSE high_risk_recs(factors)

\* _generate_recommendations
generate_recommendations(risk_level, factors) ==
    IF risk_level = "SAFE" THEN safe_recs
    ELSE IF risk_level = "MONITOR" THEN Take(monitor_recs(factors), 5)
    ELSE Take(high_risk_recs(factors), 7)

(***************************************************************************)
(*          RISK ASSESSMENT (_load_model, _extract_features,               *)
(*                  _predict_with_model, predict_risk)                     *)
(***************************************************************************)

\* A modality summary is [given, d]: `given` is "the argument is not None" and
\* d is the dict (empty for None, as `arg or {}` makes it), a function from the
\* keys present to their values.  A value is Some(n) for a number n, in the
\* units of the features, and None for a value that is no number (null, text).

Modalities == {"chat", "mood", "vision", "activity", "health"}

\* _extract_features: for each feature its modality, its key and its default
FeatureSource ==
    [avg_sentiment_7days |-> <<"chat", "avg_sentiment", 0>>,
     lonely_mentions |-> <<"chat", "lonely_mentions", 0>>,
     health_complaints |-> <<"chat", "health_complaints", 0>>,
     sad_mood_count |-> <<"mood", "sad_count", 0>>,
     inactive_days |-> <<"mood", "inactive_days", 0>>,
     avg_facial_emotion_score |-> <<"vision", "emotion_score", 0>>,
     fall_detected_count |-> <<"vision", "fall_count", 0>>,
     distress_episodes |-> <<"vision", "distress_count", 0>>,
     pain_expression_count |-> <<"vision", "pain_count", 0>>,
     camera_inactivity_hours |-> <<"vision", "inactivity_hours", 0>>,
     eating_irregularity |-> <<"activity", "eating_irregularity", 0>>,
     sleep_quality_score |-> <<"activity", "sleep_quality", 100>>,
     days_without_eating |-> <<"activity", "days_without_eating", 0>>,
     medicine_missed |-> <<"health", "medicine_missed", 0>>,
     emergency_button_presses |-> <<"health", "emergency_button_presses", 0>>]

\* _extract_features: d.get(key, default) per feature; a present value is
\* taken as it is, number or not
extract_features(args) ==
    [k \in FeatureNames |->
        LET src == FeatureSource[k]
            d == args[src[1]].d
        IN IF src[2] \in DOMAIN d THEN d[src[2]] ELSE Some(src[3])]

\* the features as numbers, once every one of them is a number
Numeric(fs) == [k \in FeatureNames |-> fs[k][1]]

\* arithmetic or comparison on a value that is no number raises TypeError;
\* every feature is read by both scoring paths
raises_type_error(fs) == \E k \in FeatureNames : fs[k] = None

\* RISK_LABELS
RISK_LABELS == <<"SAFE", "MONITOR", "HIGH_RISK">>

\* What one path of paths_to_try holds.  model_file: "absent"; "unreadable"
\* (joblib.load raises); "empty" (unpickles to None); "not_a_model" (unpickles
\* to an object whose predict raises); "fitted".  names_file, the
\* feature_names.pkl beside it: "absent", "unreadable" or "ok".
ModelFileStates == {"absent", "unreadable", "empty", "not_a_model", "fitted"}
NamesFileStates == {"absent", "unreadable", "ok"}

Unpickled(model_file) == IF model_file = "empty" THEN None ELSE Some(model_file)

\* _load_model: the for loop over paths_to_try from path i on; st is
\* [model, model_loaded] so far
RECURSIVE load_from(_, _, _)
load_from(paths, i, st) ==
    IF i > Len(paths) THEN st
    ELSE LET path == paths[i]
         IN IF path.model_file = "absent" THEN load_from(paths, i + 1, st)
            ELSE IF path.model_file = "unreadable" THEN load_from(paths, i + 1, st)
            ELSE LET loaded == [st EXCEPT !.model = Unpickled(path.model_file)]
                 IN IF path.names_file = "unreadable" THEN load_from(paths, i + 1, loaded)
                    ELSE [loaded EXCEPT !.model_loaded = TRUE]

\* __init__ and _load_model: the predictor's model and model_loaded
load_model(available, paths) ==
    LET fresh == [model |-> None, model_loaded |-> FALSE]
    IN IF ~available THEN fresh ELSE load_from(paths, 1, fresh)

\* np.argmax over the three class probabilities: the first of the largest
ArgMax(probs) ==
    CHOOSE i \in 1..3 : /\ \A j \in 1..3 : probs[j] <= probs[i]
                        /\ \A j \in 1..(i - 1) : probs[j] < probs[i]

\* _predict_with_model for a fitted classifier whose predict_proba gives probs
\* (thousandths, already at three decimals); predict is its argmax
predict_with_model(probs) ==
    LET prediction == ArgMax(probs)
    IN [risk_level |-> RISK_LABELS[prediction],
        risk_score |-> probs[prediction],
        probabilities |-> [safe |-> probs[1], monitor |-> probs[2], high_risk |-> probs[3]]]

\* the result of the except branch of predict_risk
UnknownResult == [risk_level |-> "UNKNOWN", risk_score |-> 0, error |-> TRUE]

\* the test `self.model_loaded and self.model is not None`
uses_model(pred) == pred.model_loaded /\ pred.model # None

\* predict_risk on a predictor pred = [model, model_loaded]; tie and probs are
\* the outcomes of rounding and of the classifier.  `path`, which is not in the
\* returned dict, notes which scoring path produced the result.
predict_risk(pred, args, tie, probs) ==
    LET fs == extract_features(args)
        by_model == uses_model(pred)
    IN IF raises_type_error(fs) THEN UnknownResult
       ELSE IF by_model /\ pred.model[1] # "fitted" THEN UnknownResult
       ELSE LET features_ == Numeric(fs)
                result == IF by_model THEN predict_with_model(probs)
                          ELSE predict_with_rules(features_, tie)
                factors == identify_risk_factors(features_)
            IN [risk_level |-> result.risk_level,
                risk_score |-> result.risk_score,
                risk_probability |-> result.probabilities,
                contributing_factors |-> factors,
                recommendations |-> generate_recommendations(result.risk_level, factors),
                features |-> features_,
                data_sources_used |-> [m \in Modalities |-> args[m].given],
                model_used |-> IF pred.model_loaded THEN "random_forest" ELSE "rule_based",
                path |-> IF by_model THEN "model" ELSE "rules"]

\* ---- one call of predict_risk on summaries a caller assembles ----

\* what a path can hold: the names file matters beside a model file that loads
PathStates ==
    {[model_file |-> mf, names_file |-> "ok"] : mf \in ModelFileStates}
    \cup {[model_file |-> "fitted", names_file |-> "unreadable"]}

\* paths_to_try: the model_path argument, in any state, and one default path,
\* which holds nothing or a classifier in order
Installations ==
    {<<p1, [model_file |-> mf, names_file |-> "ok"]>> : p1 \in PathStates, mf \in {"absent", "fitted"}}

\* values of a summary field: one below and one beyond the threshold of its
\* risk factor
SummaryValues(k) ==
    CASE k = "avg_sentiment_7days" -> {-30, -31}
      [] k = "sad_mood_count" -> {4, 5}
      [] k = "lonely_mentions" -> {3, 4}
      [] k = "health_complaints" -> {2, 3}
      [] k = "inactive_days" -> {3, 4}
      [] k = "medicine_missed" -> {2, 3}
      [] k = "avg_facial_emotion_score" -> {-30, -31}
      [] k = "fall_detected_count" -> {1}
      [] k = "distress_episodes" -> {1}
      [] k = "eating_irregularity" -> {50, 51}
      [] k = "sleep_quality_score" -> {50, 49}
      [] k = "days_without_eating" -> {1}
      [] k = "emergency_button_presses" -> {1}
      [] k = "camera_inactivity_hours" -> {1200, 1250}
      [] k = "pain_expression_count" -> {2, 3}

\* what the fitted classifier's predict_proba can give, in thousandths
ModelOutputs ==
    {<<900, 80, 20>>, <<400, 300, 300>>, <<250, 500, 250>>, <<300, 300, 400>>, <<50, 150, 800>>}

NoSummary == [given |-> FALSE, d |-> <<>>]

\* the features a summary gives a value for
GivenFeatures == {k \in FeatureNames : FeatureSource[k][2] \in DOMAIN summaries[FeatureSource[k][1]].d}

\* modalities passed as an empty dict
PassedEmpty == {m \in Modalities : summaries[m].given /\ DOMAIN summaries[m].d = {}}

\* at most this many fields and empty summaries are passed
MaxGiven == 2

InitPredict ==
    /\ \/ joblib_available = TRUE /\ paths_to_try \in Installations
       \/ joblib_available = FALSE /\ paths_to_try = <<[model_file |-> "fitted", names_file |-> "ok"],
                                                        [model_file |-> "absent", names_file |-> "ok"]>>
    /\ model = load_model(joblib_available, paths_to_try).model
    /\ model_loaded = load_model(joblib_available, paths_to_try).model_loaded
    /\ summaries = [m \in Modalities |-> NoSummary]
    /\ assessment = None

\* the caller passes a modality as a dict
PassSummary ==
    /\ assessment = None
    /\ Cardinality(GivenFeatures) + Cardinality(PassedEmpty) < MaxGiven
    /\ \E m \in Modalities :
          /\ ~summaries[m].given
          /\ summaries' = [summaries EXCEPT ![m].given = TRUE]
    /\ UNCHANGED <<joblib_available, paths_to_try, model, model_loaded, assessment>>
    /\ UNCHANGED <<em_vars, rk_vars, rc_vars, al_vars>>

\* the caller puts a field into a summary: a number, or a value that is none
GiveField ==
    /\ assessment = None
    /\ \E k \in FeatureNames \ GivenFeatures : \E v \in {Some(n) : n \in SummaryValues(k)} \cup {None} :
          LET m == FeatureSource[k][1]
              key == FeatureSource[k][2]
              d == summaries[m].d
          IN /\ Cardinality(GivenFeatures) + Cardinality(PassedEmpty \ {m}) < MaxGiven
             /\ summaries' = [summaries EXCEPT ![m] =
                    [given |-> TRUE,
                     d |-> [x \in DOMAIN d \cup {key} |-> IF x = key THEN v ELSE d[x]]]]
    /\ UNCHANGED <<joblib_available, paths_to_try, model, model_loaded, assessment>>
    /\ UNCHANGED <<em_vars, rk_vars, rc_vars, al_vars>>

AllUp == [e \in RoundedEntries |-> TRUE]

\* a rounding outcome counts where it shows: an entry rounds down only if that
\* changes what _predict_with_rules returns
Effective(f, tie) ==
    \A e \in RoundedEntries :
        tie[e] \/ predict_with_rules(f, tie) # predict_with_rules(f, [tie EXCEPT ![e] = TRUE])

\* the outcomes of rounding and of the classifier that a call can meet; the
\* one its scoring path does not read is held fixed
Oracles(pred, args) ==
    LET fs == extract_features(args)
        unread == CHOOSE probs \in ModelOutputs : TRUE
    IN IF raises_type_error(fs) THEN {[tie |-> AllUp, probs |-> unread]}
       ELSE IF uses_model(pred) THEN {[tie |-> AllUp, probs |-> probs] : probs \in ModelOutputs}
       ELSE {[tie |-> tie, probs |-> unread] :
                tie \in {t \in [RoundedEntries -> BOOLEAN] : Effective(Numeric(fs), t)}}

\* risk_predictor.predict_risk(chat_data, mood_data, vision_data, activity_data, health_data)
PredictRisk ==
    /\ assessment = None
    /\ LET pred == [model |-> model, model_loaded |-> model_loaded]
       IN \E o \in Oracles(pred, summaries) :
             assessment' = Some(predict_risk(pred, summaries, o.tie, o.probs))
    /\ UNCHANGED <<joblib_available, paths_to_try, model, model_loaded, summaries>>
    /\ UNCHANGED <<em_vars, rk_vars, rc_vars, al_vars>>

NextPredict ==
    \/ PassSummary
    \/ GiveField
    \/ PredictRisk

\* ---- one call of _generate_recommendations on a label and a factor list ----

\* a feature vector that passes every factor threshold
EveryThresholdPassed ==
    [k \in FeatureNames |->
        CASE k \in {"avg_sentiment_7days", "avg_facial_emotion_score"} -> -50
          [] k = "sleep_quality_score" -> 20
          [] k = "eating_irregularity" -> 80
          [] k = "camera_inactivity_hours" -> 1600
          [] OTHER -> 5]

\* the texts a factor list is made of: every factor _identify_risk_factors can
\* produce, its sentinel, and a text of the caller's own
FactorPool ==
    tripped_factors(EveryThresholdPassed) \o <<NoConcerns, "Feels LONELY after a Fall">>

\* position in FactorPool of the last factor of the list (0 for the empty list)
LastPooled ==
    IF rc_factors = <<>> THEN 0
    ELSE CHOOSE i \in 1..Len(FactorPool) : FactorPool[i] = rc_factors[Len(rc_factors)]

\* a factor list holds at most this many factors
MaxFactors == 5

InitRecommend ==
    /\ rc_level \in {RISK_LABELS[i] : i \in 1..Len(RISK_LABELS)}
    /\ rc_factors = <<>>
    /\ rc_result = None

\* the factor list grows by a text further down the pool
AddFactor ==
    /\ rc_result = None
    /\ Len(rc_factors) < MaxFactors
    /\ \E i \in (LastPooled + 1)..Len(FactorPool) : rc_factors' = Append(rc_factors, FactorPool[i])
    /\ UNCHANGED <<rc_level, rc_result>>
    /\ UNCHANGED <<em_vars, rk_vars, pr_vars, al_vars>>

\* recommendations = self._generate_recommendations(risk_level, factors)
GenerateRecommendations ==
    /\ rc_result = None
    /\ rc_result' = Some(generate_recommendations(rc_level, rc_factors))
    /\ UNCHANGED <<rc_level, rc_factors>>
    /\ UNCHANGED <<em_vars, rk_vars, pr_vars, al_vars>>

NextRecommend ==
    \/ AddFactor
    \/ GenerateRecommendations

\* ---- predict_risk by the rules on the inputs of a healthy elder ----

\* the ends of the ranges generate_realistic_training_data draws a SAFE sample
\* from (uniform(a, b) gives [a, b), randint(a, b) gives a..b-1); the score is
\* monotone in every feature, so the ends bound what lies between
SafeScenarioEnds ==
    [avg_sentiment_7days : {20, 80},
     sad_mood_count : {0, 1},
     lonely_mentions : {0, 1},
     health_complaints : {0, 1},
     inactive_days : {0, 1},
     medicine_missed : {0},
     avg_facial_emotion_score : {30, 90},
     fall_detected_count : {0},
     distress_episodes : {0},
     eating_irregularity : {0, 20},
     sleep_quality_score : {60, 100},
     days_without_eating : {0},
     emergency_button_presses : {0},
     camera_inactivity_hours : {0, 600},
     pain_expression_count : {0}]

\* the arguments of test_risk_prediction_safe, by feature
TestSafeScenario ==
    [k \in FeatureNames |->
        CASE k \in {"avg_sentiment_7days", "avg_facial_emotion_score"} -> 50
          [] k = "camera_inactivity_hours" -> 200
          [] k = "eating_irregularity" -> 10
          [] k = "sleep_quality_score" -> 80
          [] OTHER -> 0]

\* the five summaries that carry the value values[k] for every feature k
SummariesOf(values) ==
    [m \in Modalities |->
        [given |-> TRUE,
         d |-> [key \in {FeatureSource[k][2] : k \in {x \in FeatureNames : FeatureSource[x][1] = m}} |->
                   Some(values[CHOOSE k \in FeatureNames :
                                   FeatureSource[k][1] = m /\ FeatureSource[k][2] = key])]]]

HealthyInputs ==
    {SummariesOf(values) : values \in SafeScenarioEnds}
    \cup {SummariesOf(TestSafeScenario), [m \in Modalities |-> NoSummary]}

\* a predictor that found no model file
InitRoundTrip ==
    /\ joblib_available \in BOOLEAN
    /\ paths_to_try = <<[model_file |-> "absent", names_file |-> "ok"],
                        [model_file |-> "absent", names_file |-> "ok"]>>
    /\ model = load_model(joblib_available, paths_to_try).model
    /\ model_loaded = load_model(joblib_available, paths_to_try).model_loaded
    /\ summaries \in HealthyInputs
    /\ assessment = None

NextRoundTrip ==
    \/ PredictRisk

(***************************************************************************)
(*                     ALERT SERVICE AND RATE LIMITER                      *)
(***************************************************************************)

\* AlertService.ALERT_COOLDOWN_MINUTES and MAX_ALERTS_PER_HOUR
ALERT_COOLDOWN_MINUTES == 30
MAX_ALERTS_PER_HOUR == 10

\* timedelta(minutes=ALERT_COOLDOWN_MINUTES) and timedelta(hours=1), in seconds
cooldown == ALERT_COOLDOWN_MINUTES * 60
one_hour == 60 * 60

\* str() of a value put into an f-string: None is written "None"
Str(x) == IF x = None THEN "None" ELSE x[1]

\* key = f"{elder_id}:{alert_type}"
history_key(elder_id, alert_type) == elder_id \o ":" \o Str(alert_type)

\* _is_rate_limited with a window that includes its far end
is_rate_limited_inclusive(history, elder_id, alert_type, t) ==
    LET key == history_key(elder_id, alert_type)
    IN IF key \in DOMAIN history
       THEN LET recent_alerts == SelectSeq(history[key], LAMBDA ts : t - ts <= cooldown)
            IN Len(recent_alerts) > 0
       ELSE FALSE

\* _is_rate_limited with the hour of _record_alert as its window
is_rate_limited_within_hour(history, elder_id, alert_type, t) ==
    LET key == history_key(elder_id, alert_type)
    IN IF key \in DOMAIN history
       THEN LET recent_alerts == SelectSeq(history[key], LAMBDA ts : t - ts < one_hour)
            IN Len(recent_alerts) > 0
       ELSE FALSE

\* _is_rate_limited at time t
is_rate_limited(history, elder_id, alert_type, t) ==
    LET key == history_key(elder_id, alert_type)
    IN IF key \in DOMAIN history
       THEN LET recent_alerts == SelectSeq(history[key], LAMBDA ts : t - ts < cooldown)
            IN Len(recent_alerts) > 0
       ELSE FALSE

\* _record_alert without the removal of old entries
record_alert_unpruned(history, elder_id, alert_type, t) ==
    LET key == history_key(elder_id, alert_type)
        old == IF key \in DOMAIN history THEN history[key] ELSE <<>>
    IN [k \in DOMAIN history \cup {key} |-> IF k = key THEN Append(old, t) ELSE history[k]]

\* _record_alert appending the timestamp twice
record_alert_twice(history, elder_id, alert_type, t) ==
    LET key == history_key(elder_id, alert_type)
        old == IF key \in DOMAIN history THEN history[key] ELSE <<>>
        cutoff == t - one_hour
        kept == SelectSeq(Append(Append(old, t), t), LAMBDA ts : ts > cutoff)
    IN [k \in DOMAIN history \cup {key} |-> IF k = key THEN kept ELSE history[k]]

\* _record_alert at time t: the alert_history it leaves
record_alert(history, elder_id, alert_type, t) ==
    LET key == history_key(elder_id, alert_type)
        old == IF key \in DOMAIN history THEN history[key] ELSE <<>>
        cutoff == t - one_hour
        kept == SelectSeq(Append(old, t), LAMBDA ts : ts > cutoff)
    IN [k \in DOMAIN history \cup {key} |-> IF k = key THEN kept ELSE history[k]]

\* bool(x) of an optional string: None and '' are falsy
Present(x) == x # None /\ x[1] # ""

\* the loop body sending the SMS whatever the severity
send_to_member_sms_always(rec, fcm_ok, sms_ok) ==
    LET idx == rec.i
        m == rec.members[idx]
        push == Present(m.fcm_token)
        sms == Present(m.phone)
        sent == (IF push THEN <<[member |-> idx, channel |-> "fcm", ok |-> fcm_ok]>> ELSE <<>>)
                \o (IF sms THEN <<[member |-> idx, channel |-> "sms", ok |-> sms_ok]>> ELSE <<>>)
    IN [rec EXCEPT !.i = idx + 1, !.attempts = @ \o sent]

\* the loop body giving up at the first failed send
send_to_member_abort_on_failure(rec, fcm_ok, sms_ok) ==
    LET idx == rec.i
        m == rec.members[idx]
        push == Present(m.fcm_token)
        sms == rec.severity = "critical" /\ Present(m.phone)
        sent == IF push /\ ~fcm_ok
                THEN <<[member |-> idx, channel |-> "fcm", ok |-> FALSE]>>
                ELSE (IF push THEN <<[member |-> idx, channel |-> "fcm", ok |-> fcm_ok]>> ELSE <<>>)
                     \o (IF sms THEN <<[member |-> idx, channel |-> "sms", ok |-> sms_ok]>> ELSE <<>>)
    IN IF (push /\ ~fcm_ok) \/ (sms /\ ~sms_ok)
       THEN [rec EXCEPT !.pc = "returned", !.attempts = @ \o sent,
                        !.ret = Some([sent |-> FALSE, reason |-> "error"])]
       ELSE [rec EXCEPT !.i = idx + 1, !.attempts = @ \o sent]

\* One pass of the `for family_member in family_members` loop for member idx.
\* rec is the running call; fcm_ok and sms_ok are what _send_fcm_notification
\* and _send_sms_alert return if they are called.  A member that is no dict
\* makes .get raise, which the outer except turns into the 'error' result.
send_to_member(rec, fcm_ok, sms_ok) ==
    LET idx == rec.i
        m == rec.members[idx]
        severity == rec.severity
        push == Present(m.fcm_token)
        sms == severity = "critical" /\ Present(m.phone)
        r0 == rec.results
        r1 == IF push
              THEN IF fcm_ok THEN [r0 EXCEPT !.fcm_sent = @ + 1]
                             ELSE [r0 EXCEPT !.failed = @ + 1]
              ELSE r0
        r2 == IF sms /\ sms_ok THEN [r1 EXCEPT !.sms_sent = @ + 1] ELSE r1
        r3 == [r2 EXCEPT !.family_notified =
                  Append(@, [fcm |-> m.fcm_token # None,
                             sms |-> m.phone # None /\ severity = "critical"])]
        sent == (IF push THEN <<[member |-> idx, channel |-> "fcm", ok |-> fcm_ok]>> ELSE <<>>)
                \o (IF sms THEN <<[member |-> idx, channel |-> "sms", ok |-> sms_ok]>> ELSE <<>>)
    IN IF ~m.is_dict
       THEN [rec EXCEPT !.pc = "returned",
                        !.ret = Some([sent |-> FALSE, reason |-> "error"])]
       ELSE [rec EXCEPT !.i = idx + 1, !.results = r3, !.attempts = @ \o sent]

\* The call as it stands once _is_rate_limited has answered: suppressed, or
\* about to loop over family_members.  prior is the record time of the latest
\* sent dispatch of the key, kept for the claims.
begin_call(history, elder_id, emergency_data, family_members, t, prior) ==
    LET base == [elder_id |-> elder_id,
                 emergency_type |-> emergency_data.emergency_type,
                 severity |-> Get(emergency_data, "severity", "medium"),
                 members |-> family_members,
                 at |-> t, prior |-> prior, i |-> 1,
                 results |-> [fcm_sent |-> 0, sms_sent |-> 0, failed |-> 0, family_notified |-> <<>>],
                 attempts |-> <<>>]
    IN IF is_rate_limited(history, elder_id, emergency_data.emergency_type, t)
       THEN base @@ [pc |-> "returned", ret |-> Some([sent |-> FALSE, reason |-> "rate_limited"])]
       ELSE base @@ [pc |-> "fanout", ret |-> None]

\* the end of the call: _log_alert (which swallows its own failures), then
\* _record_alert, then the 'sent' result
finish_call(rec) ==
    [rec EXCEPT !.pc = "returned", !.ret = Some([sent |-> TRUE, results |-> rec.results])]

\* what the channel senders can return: mock mode (not initialized) always
\* reports success, an initialized client reports success or failure
FcmOutcomes == IF firebase_initialized THEN BOOLEAN ELSE {TRUE}
SmsOutcomes == IF twilio_initialized THEN BOOLEAN ELSE {TRUE}

\* the loop over the members from rec.i on, with outcome outs[j] for member j
RECURSIVE fan_out(_, _)
fan_out(rec, outs) ==
    IF rec.pc # "fanout" \/ rec.i > Len(rec.members) THEN rec
    ELSE fan_out(send_to_member(rec, outs[rec.i].fcm, outs[rec.i].sms), outs)

\* ---- the callers ----

\* (elder_id, emergency_type) of the dispatches; the second and third differ
\* as pairs and have one key string
Dispatches ==
    {<<"e1", Some("fall")>>, <<"e1", Some("x:fall")>>, <<"e1:x", Some("fall")>>}

Dict(token, phone) == [is_dict |-> TRUE, fcm_token |-> token, phone |-> phone]
NotADict == [is_dict |-> FALSE, fcm_token |-> None, phone |-> None]

\* the family_members lists of the dispatches
MemberLists ==
    {<<>>, <<Dict(Some("tok"), Some("+1555"))>>, <<NotADict>>}

\* emergency_data: the emergency_type of the dispatch, severity given or absent
EmergencyData(type) ==
    {[emergency_type |-> type, severity |-> sev] : sev \in {None, Some("critical")}}

\* the clock moves by one of these steps, at most MaxTicks times
ClockSteps == {1, 1799, 1859}
MaxTicks == 2

Idle == [pc |-> "idle"]

LastSent(key) == IF key \in DOMAIN last_sent THEN Some(last_sent[key]) ELSE None

NoteSent(key, t) == [k \in DOMAIN last_sent \cup {key} |-> IF k = key THEN t ELSE last_sent[k]]

InitAlert ==
    /\ now = 0 /\ ticks = 0
    /\ firebase_initialized \in BOOLEAN
    /\ twilio_initialized \in BOOLEAN
    /\ alert_history = <<>>
    /\ last_sent = <<>>

\* time passes
Tick ==
    /\ ticks < MaxTicks
    /\ \E d \in ClockSteps : now' = now + d
    /\ ticks' = ticks + 1
    /\ UNCHANGED <<firebase_initialized, twilio_initialized, alert_history, call, last_sent>>
    /\ UNCHANGED <<em_vars, rk_vars, pr_vars, rc_vars>>

\* await alert_service.send_emergency_alert(...), run from call to return with
\* no other call in between
SendEmergencyAlert ==
    /\ \E d \in Dispatches, ms \in MemberLists : \E ed \in EmergencyData(d[2]) :
       \E outs \in [1..Len(ms) -> [fcm : FcmOutcomes, sms : SmsOutcomes]] :
          LET key == history_key(d[1], d[2])
              looped == fan_out(begin_call(alert_history, d[1], ed, ms, now, LastSent(key)), outs)
          IN IF looped.pc = "returned"
             THEN /\ call' = [call EXCEPT ![0] = looped]
                  /\ UNCHANGED <<alert_history, last_sent>>
             ELSE /\ call' = [call EXCEPT ![0] = finish_call(looped)]
                  /\ alert_history' = record_alert(alert_history, d[1], d[2], now)
                  /\ last_sent' = NoteSent(key, now)
    /\ UNCHANGED <<now, ticks, firebase_initialized, twilio_initialized>>
    /\ UNCHANGED <<em_vars, rk_vars, pr_vars, rc_vars>>

NextAlert ==
    \/ Tick
    \/ SendEmergencyAlert

\* ---- the history under calls on two keys ----

\* (elder_id, emergency_type) of the dispatches: a fall and one whose
\* emergency_data carries no emergency_type
HistoryDispatches == {<<"e1", Some("fall")>>, <<"e1", None>>}

\* family_members: none, one recipient, one that is no dict, a recipient
\* followed by one that is no dict
HistoryMemberLists ==
    {<<>>, <<Dict(Some("tok"), Some("+1555"))>>, <<NotADict>>,
     <<Dict(Some("tok"), Some("+1555")), NotADict>>}

\* a service whose Firebase and Twilio clients are not configured (mock mode)
InitHistory ==
    /\ now = 0 /\ ticks = 0
    /\ firebase_initialized = FALSE
    /\ twilio_initialized = FALSE
    /\ alert_history = <<>>
    /\ last_sent = <<>>

\* await alert_service.send_emergency_alert(...) for one of the two keys, run
\* from call to return
SendEmergencyAlertOnKey ==
    /\ \E d \in HistoryDispatches, ms \in HistoryMemberLists : \E ed \in EmergencyData(d[2]) :
       \E outs \in [1..Len(ms) -> [fcm : FcmOutcomes, sms : SmsOutcomes]] :
          LET key == history_key(d[1], d[2])
              looped == fan_out(begin_call(alert_history, d[1], ed, ms, now, LastSent(key)), outs)
          IN IF looped.pc = "returned"
             THEN /\ call' = [call EXCEPT ![0] = looped]
                  /\ UNCHANGED <<alert_history, last_sent>>
             ELSE /\ call' = [call EXCEPT ![0] = finish_call(looped)]
                  /\ alert_history' = record_alert(alert_history, d[1], d[2], now)
                  /\ last_sent' = NoteSent(key, now)
    /\ UNCHANGED <<now, ticks, firebase_initialized, twilio_initialized>>
    /\ UNCHANGED <<em_vars, rk_vars, pr_vars, rc_vars>>

NextHistory ==
    \/ Tick
    \/ SendEmergencyAlertOnKey

\* ---- one elder's alerts of every type ----

\* the emergency types the detector reports, less one: enough of them for one
\* elder to pass MAX_ALERTS_PER_HOUR
ElderAlertTypes ==
    {"fall_no_movement", "fall_detected", "extreme_distress", "high_distress",
     "severe_pain", "pain_indicators", "no_eating", "missed_meals",
     "prolonged_inactivity", "extended_inactivity", "emergency_button"}

\* await alert_service.send_emergency_alert('e1', ...) for an emergency of any
\* of the types, with no recipients, run from call to return
SendEmergencyAlertOfElder ==
    /\ \E ty \in ElderAlertTypes : \E ed \in EmergencyData(Some(ty)) :
          LET key == history_key("e1", Some(ty))
              looped == fan_out(begin_call(alert_history, "e1", ed, <<>>, now, LastSent(key)),
                                <<>>)
          IN IF looped.pc = "returned"
             THEN /\ call' = [call EXCEPT ![0] = looped]
                  /\ UNCHANGED <<alert_history, last_sent>>
             ELSE /\ call' = [call EXCEPT ![0] = finish_call(looped)]
                  /\ alert_history' = record_alert(alert_history, "e1", Some(ty), now)
                  /\ last_sent' = NoteSent(key, now)
    /\ UNCHANGED <<now, ticks, firebase_initialized, twilio_initialized>>
    /\ UNCHANGED <<em_vars, rk_vars, pr_vars, rc_vars>>

NextElder ==
    \/ SendEmergencyAlertOfElder

\* ---- calls that overlap ----

\* The service holds no lock and send_emergency_alert gives up control at each
\* await (the channel sends and _log_alert), so between the rate check and the
\* record another call may run.  A call is split at those points: the check
\* (BeginCall), one recipient of the loop (SendNext), the record and return
\* (RecordAndReturn).  The two sends to one recipient touch nothing shared and
\* are taken as one step.
NCallers == 2
Callers == 1..NCallers

\* the overlapping calls: one key twice over or two keys; no or one recipient
ConcurrentDispatches == {<<"e1", Some("fall")>>, <<"e1", Some("x:fall")>>}
ConcurrentMemberLists == {<<>>, <<Dict(Some("tok"), Some("+1555"))>>}

\* send_emergency_alert up to the answer of _is_rate_limited
BeginCall(c) ==
    /\ call[c].pc = "idle"
    /\ \E d \in ConcurrentDispatches, ms \in ConcurrentMemberLists : \E ed \in EmergencyData(d[2]) :
          call' = [call EXCEPT ![c] =
                      begin_call(alert_history, d[1], ed, ms, now, LastSent(history_key(d[1], d[2])))]
    /\ UNCHANGED <<now, ticks, firebase_initialized, twilio_initialized, alert_history, last_sent>>
    /\ UNCHANGED <<em_vars, rk_vars, pr_vars, rc_vars>>

\* the loop body for the next recipient
SendNext(c) ==
    /\ call[c].pc = "fanout"
    /\ call[c].i <= Len(call[c].members)
    /\ \E fcm_ok \in FcmOutcomes, sms_ok \in SmsOutcomes :
          call' = [call EXCEPT ![c] = send_to_member(call[c], fcm_ok, sms_ok)]
    /\ UNCHANGED <<now, ticks, firebase_initialized, twilio_initialized, alert_history, last_sent>>
    /\ UNCHANGED <<em_vars, rk_vars, pr_vars, rc_vars>>

\* after the loop and _log_alert: _record_alert and the 'sent' result
RecordAndReturn(c) ==
    /\ call[c].pc = "fanout"
    /\ call[c].i > Len(call[c].members)
    /\ alert_history' = record_alert(alert_history, call[c].elder_id, call[c].emergency_type, now)
    /\ last_sent' = NoteSent(history_key(call[c].elder_id, call[c].emergency_type), now)
    /\ call' = [call EXCEPT ![c] = finish_call(call[c])]
    /\ UNCHANGED <<now, ticks, firebase_initialized, twilio_initialized>>
    /\ UNCHANGED <<em_vars, rk_vars, pr_vars, rc_vars>>

NextConcurrent ==
    \/ \E c \in Callers : BeginCall(c)
    \/ \E c \in Callers : SendNext(c)
    \/ \E c \in Callers : RecordAndReturn(c)

\* ---- the fan-out over recipients of every kind ----

\* a recipient with no, an empty or a real fcm_token, and no or a real phone
MemberKinds ==
    {Dict(token, phone) : token \in {None, Some(""), Some("tok")}, phone \in {None, Some("+1555")}}

MaxMembers == 2

FanoutMemberLists == UNION {[1..n -> MemberKinds] : n \in 0..MaxMembers}

\* emergency_data of a fall with severity absent, 'critical' or 'high'
FanoutEmergencyData ==
    {[emergency_type |-> Some("fall"), severity |-> sev] : sev \in {None, Some("critical"), Some("high")}}

\* send_emergency_alert('e1', ...) up to the answer of _is_rate_limited, once
\* the service's previous call has returned
BeginFanout ==
    /\ call[0].pc \in {"idle", "returned"}
    /\ \E ms \in FanoutMemberLists, ed \in FanoutEmergencyData :
          call' = [call EXCEPT ![0] =
                      begin_call(alert_history, "e1", ed, ms, now,
                                 LastSent(history_key("e1", ed.emergency_type)))]
    /\ UNCHANGED <<now, ticks, firebase_initialized, twilio_initialized, alert_history, last_sent>>
    /\ UNCHANGED <<em_vars, rk_vars, pr_vars, rc_vars>>

NextFanout ==
    \/ BeginFanout
    \/ SendNext(0)
    \/ RecordAndReturn(0)

\* the components a specification does not exercise stay as constructed
RiskIdle == rk_pc = "idle" /\ features = None /\ rk_result = None
AlertIdle ==
    /\ now = 0 /\ ticks = 0
    /\ firebase_initialized = FALSE /\ twilio_initialized = FALSE
    /\ alert_history = <<>> /\ call = <<>> /\ last_sent = <<>>
EmergencyIdle ==
    /\ em_pc = "idle" /\ em_result = None
    /\ vision_data = None /\ activity_data = None /\ health_data = None
PredictIdle ==
    /\ joblib_available = FALSE /\ paths_to_try = <<>>
    /\ model = None /\ model_loaded = FALSE
    /\ summaries = None /\ assessment = None
RecommendIdle == rc_level = None /\ rc_factors = None /\ rc_result = None

InitEmergencySpec == InitEmergency /\ RiskIdle /\ PredictIdle /\ RecommendIdle /\ AlertIdle

SpecEmergency == InitEmergencySpec /\ [][NextEmergency]_vars

InitCombinedSpec == InitCombined /\ RiskIdle /\ PredictIdle /\ RecommendIdle /\ AlertIdle

\* detect_emergency over every combination of the combined-risk indicators
SpecCombined == InitCombinedSpec /\ [][NextCombined]_vars

InitRiskSpec == InitRisk /\ EmergencyIdle /\ PredictIdle /\ RecommendIdle /\ AlertIdle

SpecRisk == InitRiskSpec /\ [][NextRisk]_vars

InitAlertSpec ==
    InitAlert /\ call = [c \in {0} |-> Idle] /\ EmergencyIdle /\ RiskIdle /\ PredictIdle /\ RecommendIdle

\* one caller at a time: every call returns before the next begins
SpecAlert == InitAlertSpec /\ [][NextAlert]_vars

InitConcurrentSpec ==
    InitAlert /\ call = [c \in Callers |-> Idle] /\ EmergencyIdle /\ RiskIdle /\ PredictIdle /\ RecommendIdle

\* calls of several callers overlapping within one instant of the clock
SpecConcurrent == InitConcurrentSpec /\ [][NextConcurrent]_vars

InitFanoutSpec ==
    InitAlert /\ call = [c \in {0} |-> Idle] /\ EmergencyIdle /\ RiskIdle /\ PredictIdle /\ RecommendIdle

\* one caller, recipient by recipient, within one instant of the clock
SpecFanout == InitFanoutSpec /\ [][NextFanout]_vars

InitHistorySpec ==
    InitHistory /\ call = [c \in {0} |-> Idle] /\ EmergencyIdle /\ RiskIdle /\ PredictIdle /\ RecommendIdle

\* calls one at a time on two keys of one elder, with the clock
SpecHistory == InitHistorySpec /\ [][NextHistory]_vars

InitElderSpec ==
    InitHistory /\ call = [c \in {0} |-> Idle] /\ EmergencyIdle /\ RiskIdle /\ PredictIdle /\ RecommendIdle

\* the alerts of one elder, of every type, within one instant
SpecElder == InitElderSpec /\ [][NextElder]_vars

InitPredictSpec == InitPredict /\ EmergencyIdle /\ RiskIdle /\ RecommendIdle /\ AlertIdle

\* predict_risk on a predictor as its constructor left it
SpecPredict == InitPredictSpec /\ [][NextPredict]_vars

InitRecommendSpec == InitRecommend /\ EmergencyIdle /\ RiskIdle /\ PredictIdle /\ AlertIdle

\* _generate_recommendations on labels and factor lists
SpecRecommend == InitRecommendSpec /\ [][NextRecommend]_vars

InitRoundTripSpec == InitRoundTrip /\ EmergencyIdle /\ RiskIdle /\ RecommendIdle /\ AlertIdle

\* the extractor's output fed to the rule-based scorer
SpecRoundTrip == InitRoundTripSpec /\ [][NextRoundTrip]_vars

\* ---- what the claims about the rule-based scorer read ----

RkDone == rk_pc = "done"
Probabilities == rk_result[1].probabilities
ProbabilitySum == Probabilities.safe + Probabilities.monitor + Probabilities.high_risk

\* C3: the three probabilities sum to 1.0 (1000 thousandths).  Each is rounded to
\* 3 decimals, so the sum of three exact parts of 1 can be off by 0.001; that
\* much is allowed here, far more than the tolerance of 1e-6 the property states.
C3_ProbabilitiesSumToOne ==
    RkDone => (ProbabilitySum >= 999 /\ ProbabilitySum <= 1001)

\* C4: the returned label agrees with the returned risk_score: SAFE iff
\* risk_score < 0.3, MONITOR iff 0.3 <= risk_score < 0.6, HIGH_RISK iff
\* risk_score >= 0.6.
C4_LabelMatchesScore ==
    RkDone =>
        LET R == rk_result[1]
        IN /\ (R.risk_level = "SAFE") <=> (R.risk_score < 300)
           /\ (R.risk_level = "MONITOR") <=> (R.risk_score >= 300 /\ R.risk_score < 600)
           /\ (R.risk_level = "HIGH_RISK") <=> (R.risk_score >= 600)

\* ---- what the claims about detect_emergency read ----

\* the call returned a result dict (it did not raise)
EmReturned == em_pc = "done" /\ "raised" \notin DOMAIN em_result[1]

\* a key of an argument: None when the argument is None or lacks the key
Field(arg, k) == IF arg = None THEN None ELSE arg[1][k]
FieldOr(arg, k, default) == IF Field(arg, k) = None THEN default ELSE Field(arg, k)[1]
FieldTrue(arg, k) == Field(arg, k) = Some(TRUE)
WrongKeys(arg) == IF arg = None THEN {} ELSE arg[1].wrong_type
NoWrongType == WrongKeys(vision_data) \cup WrongKeys(activity_data) \cup WrongKeys(health_data) = {}

ArgDict(arg, empty) == IF arg = None THEN empty ELSE arg[1]
Triggered ==
    collect_emergencies(ArgDict(vision_data, EmptyVision), ArgDict(activity_data, EmptyActivity),
                        ArgDict(health_data, EmptyHealth))

Rank(sev) == CASE sev = "critical" -> 4 [] sev = "high" -> 3 [] sev = "medium" -> 2 [] sev = "low" -> 1 [] OTHER -> 0

Concerns == em_result[1].all_concerns
ConcernsOfType(types) == {i \in 1..Len(Concerns) : Concerns[i].type \in types}

FallTypes == {"fall_detected", "fall_no_movement"}
EatingTypes == {"no_eating", "missed_meals"}
\* the type tags that contain the text 'fall', and those that contain 'eating'
ContainsFall == {"fall_detected", "fall_no_movement"}
ContainsEating == {"no_eating"}

\* C5: when at least one check triggers, the reported primary emergency is the
\* candidate of the highest severity rank (critical > high > medium > low), the
\* earliest check winning among equals, and all_concerns holds every triggered
\* candidate and nothing else.
C5_PrimaryIsTopSeverity ==
    (EmReturned /\ Triggered # <<>>) =>
        LET R == em_result[1]
            top == CHOOSE i \in 1..Len(Triggered) :
                       /\ \A j \in 1..Len(Triggered) :
                              Rank(Triggered[j].severity) <= Rank(Triggered[i].severity)
                       /\ \A j \in 1..(i - 1) :
                              Rank(Triggered[j].severity) < Rank(Triggered[i].severity)
        IN /\ R.emergency_type = Some(Triggered[top].type)
           /\ R.severity = Triggered[top].severity
           /\ R.alert_message = Some(Triggered[top].message)
           /\ R.recommended_action = Some(Triggered[top].action)
           /\ Len(R.all_concerns) = Len(Triggered)
           /\ \A i \in 1..Len(Triggered) : \E j \in 1..Len(R.all_concerns) : R.all_concerns[j] = Triggered[i]

\* C5 witness: a medium candidate of an early check, then two critical ones; the
\* earlier critical one is reported
C5_Witness ==
    /\ EmReturned
    /\ Len(Triggered) >= 3
    /\ Triggered[1].severity = "medium"
    /\ Triggered[2].severity = "critical" /\ Triggered[3].severity = "critical"
    /\ em_result[1].emergency_type = Some(Triggered[2].type)

\* the conditions of the seven checks, read off the arguments
FallTriggers == FieldTrue(vision_data, "fall_detected")
DistressTriggers == Field(vision_data, "distress_level") \in {Some("high"), Some("critical")}
PainTriggers ==
    \/ FieldTrue(vision_data, "pain_detected") /\ FieldOr(health_data, "pain_score", 0) > 7
    \/ FieldOr(vision_data, "pain_expression_count", 0) > 3 /\ FieldOr(health_data, "health_complaints", 0) > 2
EatingTriggers == FieldOr(activity_data, "days_without_eating", 0) >= 1
InactivityTriggers == FieldOr(activity_data, "max_inactivity_hours", 0) >= 12
ButtonTriggers == FieldOr(health_data, "emergency_button_presses", 0) > 0
TrippedIndicators ==
    {n \in 1..8 :
        \/ n = 1 /\ DistressTriggers
        \/ n = 2 /\ FieldTrue(vision_data, "pain_detected")
        \/ n = 3 /\ FieldTrue(vision_data, "unusual_posture")
        \/ n = 4 /\ FieldTrue(activity_data, "prolonged_inactivity")
        \/ n = 5 /\ FieldTrue(activity_data, "concerning")
        \/ n = 6 /\ FieldOr(activity_data, "days_without_eating", 0) > 0
        \/ n = 7 /\ FieldOr(health_data, "health_complaints", 0) > 3
        \/ n = 8 /\ FieldOr(health_data, "medicine_missed", 0) > 3}
CombinedTriggers == Cardinality(TrippedIndicators) >= 3
AnyCheckTriggers ==
    \/ FallTriggers \/ DistressTriggers \/ PainTriggers \/ EatingTriggers
    \/ InactivityTriggers \/ ButtonTriggers \/ CombinedTriggers

\* C6: the result is the "no emergency" one (emergency False, severity 'none',
\* emergency_type None, all_concerns empty) exactly when none of the seven checks
\* triggers; when any triggers, emergency is True and all_concerns is non-empty.
C6_NoEmergencyIffNoTrigger ==
    EmReturned =>
        LET R == em_result[1]
            none == /\ R.emergency = FALSE /\ R.severity = "none"
                    /\ R.emergency_type = None /\ R.all_concerns = <<>>
        IN /\ none <=> ~AnyCheckTriggers
           /\ AnyCheckTriggers => (R.emergency = TRUE /\ R.all_concerns # <<>>)

\* C6 witness: the call of test_no_emergency's kind, keys present and nothing triggered
C6_Witness ==
    /\ EmReturned
    /\ Field(vision_data, "fall_detected") = Some(FALSE)
    /\ Field(activity_data, "days_without_eating") = Some(0)
    /\ Field(health_data, "emergency_button_presses") = Some(0)
    /\ em_result[1].emergency = FALSE /\ em_result[1].all_concerns = <<>>

\* C7: with fall_detected true there is exactly one fall candidate, critical;
\* it is 'fall_no_movement' iff a timestamp is present (and readable) with at
\* least 5 minutes elapsed, 'fall_detected' otherwise; the reported emergency is
\* then critical with a type containing 'fall'.
C7_ExactlyOneFallCandidate ==
    (EmReturned /\ FallTriggers) =>
        LET R == em_result[1]
            ts == Field(vision_data, "fall_timestamp")
            long == ts # None /\ ts[1].parses /\ ts[1].elapsed >= 5 * 60
        IN /\ Cardinality(ConcernsOfType(FallTypes)) = 1
           /\ \A i \in ConcernsOfType(FallTypes) :
                  /\ Concerns[i].severity = "critical"
                  /\ Concerns[i].type = (IF long THEN "fall_no_movement" ELSE "fall_detected")
           /\ R.emergency = TRUE /\ R.severity = "critical"
           /\ R.emergency_type # None /\ R.emergency_type[1] \in ContainsFall

\* C7 witness: a fall exactly 5 minutes old is reported as 'fall_no_movement'
C7_Witness ==
    /\ EmReturned /\ FallTriggers
    /\ Field(vision_data, "fall_timestamp") = Some([parses |-> TRUE, elapsed |-> 300])
    /\ em_result[1].emergency_type = Some("fall_no_movement")

\* C7 witness of the other variant: fall_detected alone, no timestamp
C7_WitnessNoTimestamp ==
    /\ EmReturned /\ FallTriggers
    /\ Field(vision_data, "fall_timestamp") = None
    /\ em_result[1].emergency_type = Some("fall_detected")

\* C8: with emergency_button_presses > 0 the result is an emergency of severity
\* critical and all_concerns holds a critical 'emergency_button' candidate,
\* whatever else is present or absent.
C8_ButtonAlwaysCritical ==
    (EmReturned /\ ButtonTriggers) =>
        LET R == em_result[1]
        IN /\ R.emergency = TRUE /\ R.severity = "critical"
           /\ \E i \in ConcernsOfType({"emergency_button"}) : Concerns[i].severity = "critical"

\* C8 witness: one press, vision_data and activity_data None
C8_Witness ==
    /\ EmReturned /\ ButtonTriggers
    /\ vision_data = None /\ activity_data = None
    /\ em_result[1].emergency_type = Some("emergency_button")

\* C9: the eating check gives one critical 'no_eating' candidate when
\* days_without_eating >= 2, one medium 'missed_meals' candidate when it is 1,
\* none when it is 0 or absent; with days_without_eating >= 2 as the only key
\* given, the reported type contains 'eating'.
C9_EatingBands ==
    EmReturned =>
        LET R == em_result[1]
            days == FieldOr(activity_data, "days_without_eating", 0)
            eating == ConcernsOfType(EatingTypes)
            alone == PresentCount = 1
        IN /\ days >= 2 =>
                  /\ Cardinality(eating) = 1
                  /\ \A i \in eating : Concerns[i].type = "no_eating" /\ Concerns[i].severity = "critical"
           /\ days = 1 =>
                  /\ Cardinality(eating) = 1
                  /\ \A i \in eating : Concerns[i].type = "missed_meals" /\ Concerns[i].severity = "medium"
           /\ days = 0 => eating = {}
           /\ (days >= 2 /\ alone) =>
                  /\ R.emergency = TRUE
                  /\ R.emergency_type # None /\ R.emergency_type[1] \in ContainsEating

\* C9 witness: activity_data = {days_without_eating: 3} alone
C9_Witness ==
    /\ EmReturned
    /\ Field(activity_data, "days_without_eating") = Some(3)
    /\ PresentCount = 1
    /\ em_result[1].emergency_type = Some("no_eating")

\* the keys a candidate type is computed from: a candidate needs the keys of one
\* of these sets present
BackedByPresentKeys(c) ==
    LET v(k) == Field(vision_data, k) # None
        a(k) == Field(activity_data, k) # None
        h(k) == Field(health_data, k) # None
        indicatorKeys ==
            Cardinality({k \in {"distress_level", "pain_detected", "unusual_posture"} : v(k)})
            + Cardinality({k \in {"prolonged_inactivity", "concerning", "days_without_eating"} : a(k)})
            + Cardinality({k \in {"health_complaints", "medicine_missed"} : h(k)})
    IN CASE c.type \in FallTypes -> v("fall_detected")
         [] c.type \in {"extreme_distress", "high_distress"} -> v("distress_level")
         [] c.type = "severe_pain" -> v("pain_detected") /\ h("pain_score")
         [] c.type = "pain_indicators" -> v("pain_expression_count") /\ h("health_complaints")
         [] c.type \in EatingTypes -> a("days_without_eating")
         [] c.type \in {"prolonged_inactivity", "extended_inactivity"} -> a("max_inactivity_hours")
         [] c.type = "emergency_button" -> h("emergency_button_presses")
         [] c.type = "multiple_risk_factors" -> indicatorKeys >= 3
         [] OTHER -> FALSE

\* C10: detect_emergency raises only when a present key has a wrong type, never
\* for an argument that is None or empty or for an absent key; otherwise the
\* result is well formed, every candidate in it rests on keys that are present
\* (an absent key counts as 'condition not met'), and passing None for an
\* argument gives the result that passing the empty dict gives.
C10_MissingDataNeverRaises ==
    em_pc = "done" =>
        LET R == em_result[1]
            dict(arg, empty) == IF arg = None THEN Some(empty) ELSE arg
        IN /\ "raised" \in DOMAIN R => ~NoWrongType
           /\ EmReturned =>
                /\ R.emergency \in BOOLEAN
                /\ R.severity \in {"none", "low", "medium", "high", "critical"}
                /\ R.emergency = (R.all_concerns # <<>>)
                /\ R.emergency = (R.emergency_type # None)
                /\ \A i \in 1..Len(R.all_concerns) : BackedByPresentKeys(R.all_concerns[i])
                /\ R = detect_emergency(dict(vision_data, EmptyVision),
                                        dict(activity_data, EmptyActivity),
                                        dict(health_data, EmptyHealth))

\* C10 witness: all three arguments None, and a call with two arguments None
\* whose third triggers a check
C10_Witness ==
    /\ EmReturned
    /\ vision_data = None /\ activity_data = None /\ health_data = None
    /\ em_result[1].emergency = FALSE

C10_WitnessOneModality ==
    /\ EmReturned
    /\ vision_data = None /\ health_data = None
    /\ Field(activity_data, "max_inactivity_hours") = Some(18)
    /\ em_result[1].emergency_type = Some("prolonged_inactivity")


\* ---- what the claims about the alert service read ----

Returned(c) == call[c].pc = "returned"
Sent(c) == Returned(c) /\ call[c].ret[1].sent
Suppressed(c) == Returned(c) /\ ~call[c].ret[1].sent /\ call[c].ret[1].reason = "rate_limited"
KeyOf(c) == history_key(call[c].elder_id, call[c].emergency_type)

\* a sent dispatch of the call's key was recorded less than 30 minutes before it
RecentlySent(c) == call[c].prior # None /\ call[c].at - call[c].prior[1] < 30 * 60

\* C1: a call made while no other call runs is suppressed (sent = false,
\* reason 'rate_limited', no push and no SMS started) if and only if a sent
\* dispatch of its key was recorded less than 30 minutes before it.
C1_SuppressedIffRecentlySent ==
    Returned(0) =>
        /\ Suppressed(0) <=> RecentlySent(0)
        /\ Suppressed(0) => call[0].attempts = <<>>

\* the second of two calls one second apart is suppressed, and its recipient,
\* who has a token and a phone, is sent nothing
C1_Witness ==
    /\ Suppressed(0)
    /\ call[0].prior = Some(0) /\ call[0].at = 1
    /\ call[0].severity = "critical"
    /\ call[0].members = <<Dict(Some("tok"), Some("+1555"))>>
    /\ call[0].attempts = <<>>

\* a call 31 minutes after the sent one is sent again
C1_WitnessAfterCooldown ==
    /\ Sent(0)
    /\ call[0].prior = Some(0) /\ call[0].at = 31 * 60

\* C2: of the calls for one key that overlap within one instant at most one
\* returns sent = true, and once all have returned the others were suppressed.
C2_AtMostOneSentPerKey ==
    \A c1, c2 \in Callers :
        (c1 # c2 /\ Sent(c1) /\ Returned(c2) /\ KeyOf(c1) = KeyOf(c2) /\ call[c1].at = call[c2].at)
            => Suppressed(c2) \/ (~call[c2].ret[1].sent /\ call[c2].ret[1].reason = "error")


\* ---- what the claims about predict_risk read ----

Assessed == assessment # None
Normal == Assessed /\ "error" \notin DOMAIN assessment[1]
Aborted == Assessed /\ "error" \in DOMAIN assessment[1]

\* the features whose risk-factor threshold is passed, read off a feature vector
TrippedThresholds(f) ==
    {k \in FeatureNames :
        \/ k = "avg_sentiment_7days" /\ f[k] < -30
        \/ k = "sad_mood_count" /\ f[k] > 4
        \/ k = "lonely_mentions" /\ f[k] > 3
        \/ k = "health_complaints" /\ f[k] > 2
        \/ k = "medicine_missed" /\ f[k] > 2
        \/ k = "fall_detected_count" /\ f[k] > 0
        \/ k = "distress_episodes" /\ f[k] > 0
        \/ k = "pain_expression_count" /\ f[k] > 2
        \/ k = "days_without_eating" /\ f[k] > 0
        \/ k = "camera_inactivity_hours" /\ f[k] > 1200
        \/ k = "sleep_quality_score" /\ f[k] < 50
        \/ k = "eating_irregularity" /\ f[k] > 50
        \/ k = "inactive_days" /\ f[k] > 3
        \/ k = "avg_facial_emotion_score" /\ f[k] < -30
        \/ k = "emergency_button_presses" /\ f[k] > 0}

\* C11: the factor list of an assessment is never empty; it is exactly the one
\* sentinel 'No major concerns detected' when no threshold is passed, and holds
\* one entry per threshold passed, none of them the sentinel, otherwise.
C11_FactorsNeverEmpty ==
    Normal =>
        LET fl == assessment[1].contributing_factors
            tripped == TrippedThresholds(assessment[1].features)
        IN /\ Len(fl) >= 1
           /\ (tripped = {}) <=> (fl = <<NoConcerns>>)
           /\ tripped # {} =>
                 /\ Len(fl) = Cardinality(tripped)
                 /\ \A i \in 1..Len(fl) : fl[i] # NoConcerns

\* the all-default vector from empty inputs gives the sentinel alone
C11_Witness ==
    /\ Normal
    /\ GivenFeatures = {}
    /\ assessment[1].features = DefaultFeatures
    /\ assessment[1].contributing_factors = <<NoConcerns>>

\* two thresholds passed give two factors and no sentinel
C11_WitnessTripped ==
    /\ Normal
    /\ Cardinality(TrippedThresholds(assessment[1].features)) = 2
    /\ Len(assessment[1].contributing_factors) = 2


\* ---- what the claims about _generate_recommendations read ----

Recommended == rc_result # None

\* some factor of the list mentions a fall, in any letter case
MentionsFall == \E i \in 1..Len(rc_factors) : Contains(Lower(rc_factors[i]), "fall")

InList(recs, text) == \E i \in 1..Len(recs) : recs[i] = text

\* C12: the recommendations are never empty; SAFE gives the fixed three items,
\* MONITOR one to five, HIGH_RISK one to seven with the 'IMMEDIATE ACTION
\* REQUIRED' banner first and, when a factor mentions a fall, the instruction
\* to contact immediately after the fall.
C12_RecommendationsBounded ==
    Recommended =>
        LET recs == rc_result[1]
        IN /\ Len(recs) >= 1
           /\ rc_level = "SAFE" =>
                 recs = <<" Continue regular monitoring",
                          "Maintain current care routine",
                          "Encourage social activities and engagement">>
           /\ rc_level = "MONITOR" => Len(recs) <= 5
           /\ rc_level = "HIGH_RISK" =>
                 /\ Len(recs) <= 7
                 /\ recs[1] = " IMMEDIATE ACTION REQUIRED"
                 /\ MentionsFall => InList(recs, " Contact IMMEDIATELY to verify safety after fall")

\* a HIGH_RISK list cut to seven that keeps the fall instruction
C12_Witness ==
    /\ Recommended
    /\ rc_level = "HIGH_RISK"
    /\ MentionsFall
    /\ Len(high_risk_recs(rc_factors)) > 7
    /\ Len(rc_result[1]) = 7
    /\ rc_result[1][2] = " Contact IMMEDIATELY to verify safety after fall"

\* a MONITOR list cut to five
C12_WitnessMonitorCut ==
    /\ Recommended
    /\ rc_level = "MONITOR"
    /\ Len(monitor_recs(rc_factors)) > 5
    /\ Len(rc_result[1]) = 5


\* every feature lies in the range of the training generator's SAFE scenario
InSafeRanges(f) ==
    /\ f.avg_sentiment_7days >= 20 /\ f.avg_sentiment_7days <= 80
    /\ f.sad_mood_count \in 0..1 /\ f.lonely_mentions \in 0..1
    /\ f.health_complaints \in 0..1 /\ f.inactive_days \in 0..1
    /\ f.medicine_missed = 0
    /\ f.avg_facial_emotion_score >= 30 /\ f.avg_facial_emotion_score <= 90
    /\ f.fall_detected_count = 0 /\ f.distress_episodes = 0
    /\ f.eating_irregularity >= 0 /\ f.eating_irregularity <= 20
    /\ f.sleep_quality_score >= 60 /\ f.sleep_quality_score <= 100
    /\ f.days_without_eating = 0 /\ f.emergency_button_presses = 0
    /\ f.camera_inactivity_hours >= 0 /\ f.camera_inactivity_hours <= 600
    /\ f.pain_expression_count = 0

ByRules == Normal /\ assessment[1].path = "rules"

\* C13: the extractor's output scored by the rules is never HIGH_RISK for an
\* input within the SAFE-scenario ranges or for the all-default vector of empty
\* inputs, and is SAFE for the SAFE scenario of the test.
C13_HealthyNeverHighRisk ==
    Assessed =>
        /\ ByRules
        /\ (InSafeRanges(assessment[1].features) \/ assessment[1].features = DefaultFeatures)
              => assessment[1].risk_level # "HIGH_RISK"
        /\ assessment[1].features = TestSafeScenario => assessment[1].risk_level = "SAFE"

\* the riskiest end of every SAFE range at once, scored by the rules
C13_Witness ==
    /\ ByRules
    /\ InSafeRanges(assessment[1].features)
    /\ assessment[1].features.avg_sentiment_7days = 20
    /\ assessment[1].features.sad_mood_count = 1
    /\ assessment[1].features.lonely_mentions = 1
    /\ assessment[1].features.health_complaints = 1
    /\ assessment[1].features.inactive_days = 1
    /\ assessment[1].features.avg_facial_emotion_score = 30
    /\ assessment[1].features.eating_irregularity = 20
    /\ assessment[1].features.sleep_quality_score = 60
    /\ assessment[1].risk_level = "SAFE"

\* the SAFE scenario of the test is SAFE
C13_WitnessTestScenario ==
    /\ ByRules
    /\ assessment[1].features = TestSafeScenario
    /\ assessment[1].risk_level = "SAFE"
    /\ assessment[1].risk_score = 96


\* C14: whenever a normal result is returned, on the model path as on the
\* rule path, SAFE comes with risk_score below 0.5 and HIGH_RISK with
\* risk_score above 0.5.
C14_ScoreOrdersLabels ==
    Normal =>
        /\ assessment[1].risk_level = "SAFE" => assessment[1].risk_score < 500
        /\ assessment[1].risk_level = "HIGH_RISK" => assessment[1].risk_score > 500


\* ---- what the claims about the fan-out read ----

\* recipient j of call c has been through the loop body
Processed(c, j) == call[c].pc # "idle" /\ ~Suppressed(c) /\ j \in 1..Len(call[c].members) /\ j < call[c].i

\* a send on channel ch to recipient j was started in call c
Attempted(c, j, ch) ==
    \E k \in 1..Len(call[c].attempts) :
        call[c].attempts[k].member = j /\ call[c].attempts[k].channel = ch

\* the recipient has a non-empty value under the key
HasPushAddress(c, j) == call[c].members[j].fcm_token \notin {None, Some("")}
HasPhone(c, j) == call[c].members[j].phone \notin {None, Some("")}

\* C15: in a call that is not suppressed, a push is attempted to a recipient
\* exactly when the recipient has an fcm_token, and an SMS exactly when the
\* severity is 'critical' and the recipient has a phone; no SMS is attempted
\* for another severity, and a suppressed call attempts nothing.
C15_ChannelsByAddressAndSeverity ==
    \A c \in DOMAIN call :
        /\ \A j \in 1..(IF call[c].pc = "idle" THEN 0 ELSE Len(call[c].members)) :
              Processed(c, j) =>
                 /\ Attempted(c, j, "fcm") <=> HasPushAddress(c, j)
                 /\ Attempted(c, j, "sms") <=> (call[c].severity = "critical" /\ HasPhone(c, j))
        /\ call[c].pc # "idle" =>
              /\ \A k \in 1..Len(call[c].attempts) :
                    call[c].attempts[k].channel = "sms" => call[c].severity = "critical"
              /\ Suppressed(c) => call[c].attempts = <<>>

\* a critical call over a recipient with a token only and one with a phone
\* only: one push to the first, one SMS to the second
C15_Witness ==
    /\ Sent(0)
    /\ call[0].severity = "critical"
    /\ call[0].members = <<Dict(Some("tok"), None), Dict(None, Some("+1555"))>>
    /\ Len(call[0].attempts) = 2
    /\ Attempted(0, 1, "fcm") /\ Attempted(0, 2, "sms")

\* a 'high' call over a recipient with token and phone: the push only
C15_WitnessNotCritical ==
    /\ Sent(0)
    /\ call[0].severity = "high"
    /\ call[0].members = <<Dict(Some("tok"), Some("+1555"))>>
    /\ Len(call[0].attempts) = 1
    /\ Attempted(0, 1, "fcm")


\* some send of call c reported failure
SomeSendFailed(c) ==
    call[c].pc # "idle" /\ \E k \in 1..Len(call[c].attempts) : ~call[c].attempts[k].ok

\* every channel the recipients of call c are due has been attempted
EveryDueChannelAttempted(c) ==
    \A j \in 1..Len(call[c].members) :
        /\ HasPushAddress(c, j) => Attempted(c, j, "fcm")
        /\ (call[c].severity = "critical" /\ HasPhone(c, j)) => Attempted(c, j, "sms")

\* C16: a failed push or SMS never aborts the fan-out: the call goes on with
\* the loop, every channel of every recipient is attempted by the time it
\* returns, and it returns sent=true however many sends failed.
C16_FailureNeverAborts ==
    \A c \in DOMAIN call :
        SomeSendFailed(c) =>
            /\ Returned(c) => Sent(c) /\ EveryDueChannelAttempted(c)
            /\ Returned(c) => call[c].i = Len(call[c].members) + 1
            /\ \A k \in 1..Len(call[c].attempts) :
                  ~call[c].attempts[k].ok =>
                     \/ call[c].i > call[c].attempts[k].member
                     \/ Returned(c)

\* both recipients' pushes and SMS fail, all four are attempted, sent=true
C16_Witness ==
    /\ Sent(0)
    /\ call[0].severity = "critical"
    /\ call[0].members = <<Dict(Some("tok"), Some("+1555")), Dict(Some("tok"), Some("+1555"))>>
    /\ Len(call[0].attempts) = 4
    /\ \A k \in 1..4 : ~call[0].attempts[k].ok
    /\ call[0].ret[1].results.failed = 2
    /\ call[0].ret[1].results.fcm_sent = 0 /\ call[0].ret[1].results.sms_sent = 0


\* ---- what the claims about the record of a dispatch read ----

\* how often timestamp t stands in the list
Count(list, t) == Cardinality({k \in 1..Len(list) : list[k] = t})

HistoryOf(history, key) == IF key \in DOMAIN history THEN history[key] ELSE <<>>

\* C17: a call that is not suppressed leaves exactly one timestamp, the time of
\* the call, in the history of its key, as the last entry, whatever the number
\* of recipients and whether sends failed; the record of the key's previous
\* dispatch, if less than an hour old, is still there.
C17_RecordedExactlyOnce ==
    \A c \in DOMAIN call :
        Sent(c) =>
            LET after == HistoryOf(alert_history, KeyOf(c))
                t == call[c].at
            IN /\ Count(after, t) = 1
               /\ Len(after) >= 1 /\ after[Len(after)] = t
               /\ LastSent(KeyOf(c)) = Some(t)
               /\ (call[c].prior # None /\ call[c].prior[1] > t - 60 * 60) =>
                     Count(after, call[c].prior[1]) = 1

\* the same, step by step: the step in which a call returns sent=true adds the
\* call's time once to the history of its key, removes only timestamps older
\* than an hour and changes no other key
C17_StepAppendsOnce ==
    [][\A c \in DOMAIN call :
          (call'[c] # call[c] /\ Sent(c)') =>
             LET key == KeyOf(c)'
                 before == HistoryOf(alert_history, key)
                 after == HistoryOf(alert_history', key)
                 t == call'[c].at
             IN /\ Count(after, t) = Count(before, t) + 1
                /\ Len(after) <= Len(before) + 1
                /\ after[Len(after)] = t
                /\ \A k \in 1..Len(before) :
                      before[k] > t - 60 * 60 => Count(after, before[k]) >= Count(before, before[k])
                /\ \A other \in (DOMAIN alert_history \cup DOMAIN alert_history') \ {key} :
                      HistoryOf(alert_history', other) = HistoryOf(alert_history, other)]_vars

\* a sent call whose push and SMS both failed, 1859 s after a sent call of the
\* key: its timestamp stands once, behind the earlier one
C17_Witness ==
    /\ Sent(0)
    /\ call[0].members = <<Dict(Some("tok"), Some("+1555"))>>
    /\ call[0].severity = "critical"
    /\ Len(call[0].attempts) = 2
    /\ \A k \in 1..2 : ~call[0].attempts[k].ok
    /\ call[0].prior = Some(0) /\ call[0].at = 1859 /\ now = 1859
    /\ alert_history[KeyOf(0)] = <<0, 1859>>

\* a sent call without recipients leaves its timestamp too
C17_WitnessNoRecipients ==
    /\ Sent(0)
    /\ call[0].members = <<>>
    /\ call[0].at = now
    /\ alert_history[KeyOf(0)] = <<now>>


\* ---- what the claims about the scoring paths read ----

\* no path of paths_to_try holds a fitted classifier, or joblib cannot load one
ClassifierMissingOrCorrupt ==
    \/ ~joblib_available
    \/ \A i \in 1..Len(paths_to_try) : paths_to_try[i].model_file # "fitted"

\* every field the summaries carry is a number
WellTyped == ~raises_type_error(extract_features(summaries))

\* C18: with the fitted classifier missing or corrupt predict_risk answers by
\* the rules, with a label of RISK_LABELS and no error or UNKNOWN result; and
\* model_used is 'rule_based' exactly when the rule path produced the result,
\* 'random_forest' exactly when the model path did.
C18_FallsBackToRules ==
    /\ (Assessed /\ ClassifierMissingOrCorrupt /\ WellTyped) =>
          /\ Normal
          /\ assessment[1].risk_level \in {RISK_LABELS[i] : i \in 1..3}
          /\ assessment[1].path = "rules"
    /\ Normal =>
          /\ assessment[1].model_used = "rule_based" <=> assessment[1].path = "rules"
          /\ assessment[1].model_used = "random_forest" <=> assessment[1].path = "model"


\* the summaries with every field that is no number left out
WithoutWrongTyped(args) ==
    [m \in Modalities |->
        [given |-> args[m].given,
         d |-> [key \in {x \in DOMAIN args[m].d : args[m].d[x] # None} |-> args[m].d[key]]]]

\* the predictor scores by the rules or by a classifier in order
PredictorInOrder == uses_model([model |-> model, model_loaded |-> model_loaded]) => model = Some("fitted")

\* C19: when a field present in a summary is no number, its default is taken
\* and the assessment is a normal one, the one the same summaries give with
\* that field absent; it is never an aborted or error result.
C19_WrongTypeTakesDefault ==
    (Assessed /\ ~WellTyped /\ PredictorInOrder) =>
        /\ Normal
        /\ LET pred == [model |-> model, model_loaded |-> model_loaded]
               without == WithoutWrongTyped(summaries)
           IN \E o \in Oracles(pred, without) :
                 assessment[1] = predict_risk(pred, without, o.tie, o.probs)


\* ---- what the claim about the order of record and sends reads ----

\* call c has started a channel send and has not returned
SendingInProgress(c) == call[c].pc = "fanout" /\ call[c].attempts # <<>>

\* the history holds the record of call c: a timestamp of its time under its key
RecordWritten(c) ==
    /\ KeyOf(c) \in DOMAIN alert_history
    /\ \E k \in 1..Len(alert_history[KeyOf(c)]) : alert_history[KeyOf(c)][k] = call[c].at

\* C20: the record of a dispatch is written before its first channel send: no
\* dispatch is among its sends with its key's record missing from the history.
C20_RecordBeforeSend ==
    \A c \in DOMAIN call : SendingInProgress(c) => RecordWritten(c)


\* ---- what the claims about pruning and the writes to the history read ----

\* call c has been decided: sent or suppressed
Decided(c) == Sent(c) \/ Suppressed(c)

\* C21: every dispatch attempt, sent or suppressed, prunes the timestamps of
\* its key older than one hour before the rate-limit decision: once the call
\* is decided no such timestamp is left in the key's history.
C21_PrunedOnEveryAttempt ==
    \A c \in DOMAIN call :
        Decided(c) =>
            \A k \in 1..Len(HistoryOf(alert_history, KeyOf(c))) :
                HistoryOf(alert_history, KeyOf(c))[k] > call[c].at - 60 * 60


\* C22: a write to the history is the record of a dispatch that was sent:
\* after it the key's history holds the time of the write and nothing older
\* than one hour before it, being the earlier entries of the last hour with
\* the new time appended; no other key changes, and no step but such a write
\* changes the history.
C22_WritesAppendAndPrune ==
    [][alert_history' # alert_history =>
          \E c \in DOMAIN call :
             /\ call'[c] # call[c] /\ Sent(c)'
             /\ LET key == KeyOf(c)'
                    t == call'[c].at
                    before == HistoryOf(alert_history, key)
                    after == HistoryOf(alert_history', key)
                IN /\ t = now
                   /\ \E k \in 1..Len(after) : after[k] = t
                   /\ \A k \in 1..Len(after) : after[k] > t - 60 * 60
                   /\ after = Append(SelectSeq(before, LAMBDA ts : ts > t - 60 * 60), t)
                   /\ \A other \in (DOMAIN alert_history \cup DOMAIN alert_history') \ {key} :
                         HistoryOf(alert_history', other) = HistoryOf(alert_history, other)]_vars

\* a dispatch sent 3718 s after the previous one of its key: the write drops
\* the old timestamp and leaves the new one
C22_Witness ==
    /\ Sent(0)
    /\ call[0].prior = Some(0) /\ call[0].at = 3718 /\ now = 3718
    /\ alert_history[KeyOf(0)] = <<3718>>


\* ---- what the claim about the counters reads ----

\* C23: in a sent=true result the counters account for every channel send that
\* was attempted: fcm_sent + sms_sent + failed is the number of push and SMS
\* sends attempted.
C23_CountersAccountForSends ==
    \A c \in DOMAIN call :
        Sent(c) =>
            LET r == call[c].ret[1].results
            IN r.fcm_sent + r.sms_sent + r.failed = Len(call[c].attempts)


\* ---- what the claims about the pain and combined-risk checks read ----

\* the pain conditions, with pain_detected and pain_score taken from the vision
\* summary and health_complaints from the health summary
SeverePainGiven ==
    FieldTrue(vision_data, "pain_detected") /\ FieldOr(vision_data, "pain_score", 0) > 7
PainIndicatorsGiven ==
    /\ ~SeverePainGiven
    /\ FieldOr(vision_data, "pain_expression_count", 0) > 3
    /\ FieldOr(health_data, "health_complaints", 0) > 2

\* C24: with pain_detected true and pain_score > 0.7 in the vision summary
\* there is exactly one pain candidate, 'severe_pain' of severity high;
\* otherwise, with pain_expression_count > 3 and health_complaints > 2, exactly
\* one, 'pain_indicators' of severity medium; otherwise none.  The two never
\* appear together.
C24_PainCandidate ==
    (EmReturned /\ NoWrongType) =>
        /\ Cardinality(ConcernsOfType({"severe_pain"})) = (IF SeverePainGiven THEN 1 ELSE 0)
        /\ Cardinality(ConcernsOfType({"pain_indicators"})) = (IF PainIndicatorsGiven THEN 1 ELSE 0)
        /\ \A i \in ConcernsOfType({"severe_pain"}) : Concerns[i].severity = "high"
        /\ \A i \in ConcernsOfType({"pain_indicators"}) : Concerns[i].severity = "medium"


\* the names of the indicators the arguments trip
TrippedNames ==
    {n \in {"emotional distress", "pain expressions", "unusual posture", "prolonged inactivity",
             "concerning activity patterns", "missed meals", "multiple health complaints",
             "missed medications"} :
        CASE n = "emotional distress" ->
                 Field(vision_data, "distress_level") \in {Some("high"), Some("critical")}
          [] n = "pain expressions" -> FieldTrue(vision_data, "pain_detected")
          [] n = "unusual posture" -> FieldTrue(vision_data, "unusual_posture")
          [] n = "prolonged inactivity" -> FieldTrue(activity_data, "prolonged_inactivity")
          [] n = "concerning activity patterns" -> FieldTrue(activity_data, "concerning")
          [] n = "missed meals" -> FieldOr(activity_data, "days_without_eating", 0) > 0
          [] n = "multiple health complaints" -> FieldOr(health_data, "health_complaints", 0) > 3
          [] n = "missed medications" -> FieldOr(health_data, "medicine_missed", 0) > 3}

\* C25: there is a 'multiple_risk_factors' candidate, one and of severity high,
\* exactly when at least 3 of the eight indicators are tripped; its message
\* lists the first names, at most 5, followed by the ellipsis exactly when
\* more than 5 are tripped, and its risk_factors carries every tripped name.
C25_CombinedRisks ==
    (EmReturned /\ NoWrongType) =>
        LET n == Cardinality(TrippedNames)
            found == ConcernsOfType({"multiple_risk_factors"})
        IN /\ Cardinality(found) = (IF n >= 3 THEN 1 ELSE 0)
           /\ \A i \in found :
                 LET e == Concerns[i]
                     listed == e.message[2]
                 IN /\ e.severity = "high"
                    /\ Len(e.risk_factors) = n
                    /\ {e.risk_factors[k] : k \in 1..n} = TrippedNames
                    /\ Len(listed) = Min(5, n)
                    /\ \A k \in 1..Len(listed) : listed[k] = e.risk_factors[k]
                    /\ e.message[3] = (IF n > 5 THEN "..." ELSE "")

\* six indicators tripped: five names listed, the ellipsis, six names carried
C25_Witness ==
    /\ EmReturned
    /\ Cardinality(TrippedNames) = 6
    /\ \E i \in ConcernsOfType({"multiple_risk_factors"}) :
          /\ Len(Concerns[i].message[2]) = 5
          /\ Concerns[i].message[3] = "..."
          /\ Len(Concerns[i].risk_factors) = 6

\* exactly three tripped: the candidate, three names, no ellipsis
C25_WitnessAtThreshold ==
    /\ EmReturned
    /\ Cardinality(TrippedNames) = 3
    /\ \E i \in ConcernsOfType({"multiple_risk_factors"}) :
          /\ Len(Concerns[i].message[2]) = 3
          /\ Concerns[i].message[3] = ""

\* two tripped: no candidate
C25_WitnessBelowThreshold ==
    /\ EmReturned
    /\ Cardinality(TrippedNames) = 2
    /\ ConcernsOfType({"multiple_risk_factors"}) = {}

\* the sent dispatches of an elder, over the given alert types, recorded in the
\* hour before t
SentWithinHour(elder_id, types, t) ==
    {<<ty, i>> \in types \X (1..MAX_ALERTS_PER_HOUR + 2) :
        LET h == HistoryOf(alert_history, history_key(elder_id, Some(ty)))
        IN i <= Len(h) /\ h[i] > t - one_hour}

\* C26: at most MAX_ALERTS_PER_HOUR = 10 dispatches of one elder, over all its
\* alert types, are sent within any one-hour window.
C26_HourlyCapPerElder ==
    Cardinality(SentWithinHour("e1", ElderAlertTypes, now)) <= MAX_ALERTS_PER_HOUR

\* the call started at least one push or SMS send
InvokedSend(c) == Returned(c) /\ call[c].attempts # <<>>

\* C27: when a call that started at least one channel send returns, the history
\* of its key holds the timestamp of the call, also when the call returns
\* sent = false with reason 'error' after some sends.
C27_SendsLeaveTimestamp ==
    \A c \in DOMAIN call :
        InvokedSend(c) => Count(HistoryOf(alert_history, KeyOf(c)), call[c].at) >= 1

\* every recipient of the call is a dict
WellFormedRecipients(c) == \A j \in 1..Len(call[c].members) : call[c].members[j].is_dict

\* C28: a step in which a call is suppressed leaves the whole alert history as
\* it was, and a call made 30 minutes or more after the most recent sent
\* dispatch of its key is not suppressed (and is sent, its recipients being
\* well-formed), whatever suppressed attempts came in between.
C28_SuppressedLeavesNoTrace ==
    [][/\ Suppressed(0)' => alert_history' = alert_history
       /\ (Returned(0)' /\ ~RecentlySent(0)') =>
              /\ ~Suppressed(0)'
              /\ WellFormedRecipients(0)' => Sent(0)']_vars

\* sent at 0, the clock stopped once on the way (at 1 or 1799, where attempts
\* on the key are suppressed), and the call at 1800 is sent
C28_Witness ==
    /\ Sent(0) /\ call[0].prior = Some(0) /\ call[0].at = 1800
    /\ ticks = 2
    /\ HistoryOf(alert_history, KeyOf(0)) = <<0, 1800>>

\* a suppressed attempt at 1799 has left the history of both keys as the sent
\* dispatches made it
C28_WitnessSuppressed ==
    /\ Suppressed(0) /\ call[0].prior = Some(0) /\ call[0].at = 1799
    /\ HistoryOf(alert_history, KeyOf(0)) = <<0>>
    /\ Cardinality(DOMAIN alert_history) = 2

\* the only dispatch the service has sent so far is the call just returned
OnlySendSoFar(c) ==
    /\ Sent(c) /\ ticks = 0
    /\ DOMAIN alert_history = {KeyOf(c)}
    /\ alert_history[KeyOf(c)] = <<call[c].at>>

\* C29: rate limiting is isolated per (elder_id, alert type): after the first
\* send of the service, made for one pair, no other pair is rate-limited and
\* the history of every other pair is still empty, identifiers containing ':'
\* included.
C29_PairsIsolated ==
    OnlySendSoFar(0) =>
        \A d \in Dispatches :
            d # <<call[0].elder_id, call[0].emergency_type>> =>
                /\ ~is_rate_limited(alert_history, d[1], d[2], now)
                /\ HistoryOf(alert_history, history_key(d[1], d[2])) = <<>>

FamilyVisitItem == " Arrange family visit or video call"
FoodCheckItem == " URGENT: Check food situation immediately"

\* the item is in the HIGH_RISK list as built, past the seventh place
CutByCap(factors, item) ==
    \E i \in 8..Len(high_risk_recs(factors)) : high_risk_recs(factors)[i] = item

\* a MONITOR assessment of a vector with lonely_mentions > 3 recommends the
\* family visit
LonelyGetsFamilyVisit ==
    (Normal /\ assessment[1].risk_level = "MONITOR" /\ assessment[1].features.lonely_mentions > 3)
        => InList(assessment[1].recommendations, FamilyVisitItem)

\* a HIGH_RISK assessment of a vector with days_without_eating > 0 recommends
\* the food check, unless the cap cut it
NoEatingGetsFoodCheck ==
    (Normal /\ assessment[1].risk_level = "HIGH_RISK" /\ assessment[1].features.days_without_eating > 0)
        => \/ InList(assessment[1].recommendations, FoodCheckItem)
           \/ CutByCap(assessment[1].contributing_factors, FoodCheckItem)

\* C30: the keywords of the recommendations match the wording of the factors:
\* MONITOR with lonely_mentions > 3 gives the 'Arrange family visit or video
\* call' item, and HIGH_RISK with days_without_eating > 0 gives the 'URGENT:
\* Check food situation immediately' item unless the 7-item cap cuts it.
C30_KeywordsMatchFactors ==
    /\ LonelyGetsFamilyVisit
    /\ NoEatingGetsFoodCheck

====
